---- MODULE Spec2Model ----
(***************************************************************************)
(* Sharp Seeker: snapshot store, detection pipeline, alert ledger and the  *)
(* poll cycle.                                                             *)
(*                                                                         *)
(* Units.  Times are minutes since an epoch that falls on a UTC midnight.  *)
(* Prices are American odds (integers).  Points are kept in half points    *)
(* (-3.5 is -7); a missing point (SQL NULL / Python None) is the empty     *)
(* sequence and a present point p is <<p>>.  Strengths are kept in         *)
(* hundredths, the precision round(strength, 2) leaves in a Signal.        *)
(* Line movements (deltas) are kept doubled: a price move of 25 is 50 and  *)
(* a point move of 0.5 is 1.  Probabilities are fractions [n, d].          *)
(***************************************************************************)
EXTENDS Integers, Sequences, FiniteSets, TLC

VARIABLES
    now,              \* datetime.now(timezone.utc)
    odds_snapshots,   \* table odds_snapshots, in rowid order
    sent_alerts,      \* table sent_alerts, in rowid order
    insert_ret,       \* the last insert_snapshots call: rows offered, rowcount returned
    last_run,         \* the last DetectionPipeline.run call and what it returned
    send_log,         \* the last DiscordAlerter.send_signals call, per signal
    api_usage,        \* table api_usage, in rowid order
    signal_results,   \* table signal_results, in rowid order
    low_budget_warned,\* BudgetTracker._low_budget_warned
    poller,           \* Poller._cycle_count, the job's next run time, the running cycle's locals
    settings,         \* the Settings the process was started with
    budget_warnings   \* the low-budget notifications executed on the webhook

poller_vars == <<api_usage, signal_results, low_budget_warned, poller, settings, budget_warnings>>

vars == <<now, odds_snapshots, sent_alerts, insert_ret, last_run, send_log, poller_vars>>

\* ------------------------------------------------------------------ bounds
MaxRows == 3          \* rows the store holds in the store-level specification
MaxBatch == 2         \* rows offered to one direct insert_snapshots call
MaxFetches == 2       \* fetches written to the store in the pipeline-level specification
MaxAlerts == 2         \* rows written in the ledger-level specification
MaxElapsed == 140     \* minutes the clock runs in the ledger-level specification
MaxTicks == 2          \* firings of the poll job in the poller-level specification
MaxCycle == 8          \* cycle indexes offered to the sub-sampler
MaxUsage == 2          \* rows of api_usage in the budget-level specification
MaxScore == 3          \* a team's final score in the graded games
MaxGroup == 2          \* signals in a group handed to _pick_best_signal
RequestMinutes == 1    \* minutes one upstream request takes
InitialCredits == 109  \* credits the upstream account holds when the process starts

\* ------------------------------------------------------------- generic helpers
None == << >>
Some(x) == <<x>>

Abs(x) == IF x < 0 THEN -x ELSE x

Range(s) == {s[i] : i \in 1..Len(s)}

RECURSIVE SeqSum(_)
SeqSum(s) == IF s = << >> THEN 0 ELSE Head(s) + SeqSum(Tail(s))

\* ------------------------------------------------------------------- time text
MinutesPerDay == 1440

\* Character codes of the separator between the date and the time of day.
CharT == 84        \* "T", written by datetime.isoformat()
CharSpace == 32    \* " ", written by SQLite's datetime()

\* datetime.isoformat(): "YYYY-MM-DDTHH:MM:SS+00:00", as (date, separator, time of day)
isoformat(t) == <<t \div MinutesPerDay, CharT, t % MinutesPerDay>>

\* SQLite datetime(text, '-N minutes'): "YYYY-MM-DD HH:MM:SS"
sqlite_datetime(t, minus) ==
    LET u == t - minus IN <<u \div MinutesPerDay, CharSpace, u % MinutesPerDay>>

\* Text comparison a >= b of two fixed-width timestamps (SQLite BINARY collation)
TextGE(a, b) ==
    \/ a[1] > b[1]
    \/ a[1] = b[1] /\ a[2] > b[2]
    \/ a[1] = b[1] /\ a[2] = b[2] /\ a[3] >= b[3]

TextLT(a, b) == ~TextGE(a, b)

\* ------------------------------------------------------------ snapshot store
SnapKey(r) == <<r.event_id, r.bookmaker_key, r.market_key, r.outcome_name, r.fetched_at>>

\* variant: a plain INSERT into a table without the UNIQUE constraint
InsertPlain(table, r) == Append(table, r)

\* INSERT OR IGNORE of one row under UNIQUE(event_id, bookmaker_key, market_key,
\* outcome_name, fetched_at)
InsertOrIgnore(table, r) ==
    IF \E i \in 1..Len(table) : SnapKey(table[i]) = SnapKey(r)
    THEN table
    ELSE Append(table, r)

RECURSIVE executemany_insert(_, _)
executemany_insert(table, rows) ==
    IF rows = << >> THEN table
    ELSE executemany_insert(InsertOrIgnore(table, Head(rows)), Tail(rows))

\* Repository.insert_snapshots: the new table and cursor.rowcount
insert_snapshots(table, rows) ==
    IF rows = << >>
    THEN [table |-> table, inserted |-> 0]
    ELSE LET t2 == executemany_insert(table, rows)
         IN  [table |-> t2, inserted |-> Len(t2) - Len(table)]

\* Repository.get_snapshots_since: ORDER BY fetched_at ASC, rowid order among equals
RECURSIVE SortByFetchedAt(_)
SortByFetchedAt(s) ==
    IF s = << >> THEN << >>
    ELSE LET m == CHOOSE i \in 1..Len(s) :
                    \A j \in 1..Len(s) :
                        \/ TextLT(isoformat(s[i].fetched_at), isoformat(s[j].fetched_at))
                        \/ s[i].fetched_at = s[j].fetched_at /\ i <= j
             rest == [k \in 1..(Len(s) - 1) |-> IF k < m THEN s[k] ELSE s[k + 1]]
         IN  <<s[m]>> \o SortByFetchedAt(rest)

get_snapshots_since(table, event_id, since) ==
    SortByFetchedAt(SelectSeq(table, LAMBDA r :
        r.event_id = event_id /\ TextGE(isoformat(r.fetched_at), isoformat(since))))

\* Repository.get_latest_snapshots: rows at MAX(fetched_at) of the event
get_latest_snapshots(table, event_id) ==
    SelectSeq(table, LAMBDA r :
        /\ r.event_id = event_id
        /\ \A i \in 1..Len(table) :
              table[i].event_id = event_id =>
                  TextGE(isoformat(r.fetched_at), isoformat(table[i].fetched_at)))

\* variant: the join without the MAX(fetched_at) subquery
get_all_prior_snapshots(table, event_id, before) ==
    SelectSeq(table, LAMBDA s :
        s.event_id = event_id /\ TextLT(isoformat(s.fetched_at), isoformat(before)))

\* Repository.get_previous_snapshots: per (bookmaker, market, outcome) the row
\* at MAX(fetched_at) among the event's rows with fetched_at < before
get_previous_snapshots(table, event_id, before) ==
    LET Prior(r) == r.event_id = event_id
                    /\ TextLT(isoformat(r.fetched_at), isoformat(before))
        SameCombo(a, b) == /\ a.bookmaker_key = b.bookmaker_key
                           /\ a.market_key = b.market_key
                           /\ a.outcome_name = b.outcome_name
    IN  SelectSeq(table, LAMBDA s :
            /\ s.event_id = event_id
            /\ \E i \in 1..Len(table) :
                  /\ Prior(table[i]) /\ SameCombo(table[i], s)
                  /\ table[i].fetched_at = s.fetched_at
                  /\ \A j \in 1..Len(table) :
                        (Prior(table[j]) /\ SameCombo(table[j], s)) =>
                            TextGE(isoformat(table[i].fetched_at),
                                   isoformat(table[j].fetched_at)))

\* Repository.get_distinct_event_ids_at: SELECT DISTINCT, first occurrences in rowid order
RECURSIVE Distinct(_)
Distinct(s) ==
    IF s = << >> THEN << >>
    ELSE LET h == Head(s)
         IN  <<h>> \o Distinct(SelectSeq(Tail(s), LAMBDA x : x /= h))

get_distinct_event_ids_at(table, fetched_at) ==
    LET at == SelectSeq(table, LAMBDA r : r.fetched_at = fetched_at)
    IN  Distinct([i \in 1..Len(at) |-> at[i].event_id])

\* ------------------------------------------------------------------ settings
steam_min_books == 3
steam_window_minutes == 30
rapid_spread_threshold == [n |-> 1, d |-> 2]        \* 0.5
rapid_ml_threshold == [n |-> 20, d |-> 1]           \* 20.0
pinnacle_spread_threshold == [n |-> 1, d |-> 1]     \* 1.0
pinnacle_ml_prob_threshold == [n |-> 3, d |-> 100]  \* 0.03
exchange_shift_threshold == [n |-> 5, d |-> 100]    \* 0.05
min_signal_strength == 50                           \* 0.5, in hundredths
alert_cooldown_minutes == 60
odds_api_monthly_credits == 500
quiet_hours_start == 5
quiet_hours_end == 14

\* the Settings fields the budget gate and the quiet-hours check read, at
\* their defaults
ConfiguredSettings ==
    [odds_api_monthly_credits |-> odds_api_monthly_credits,
     quiet_hours_start |-> quiet_hours_start,
     quiet_hours_end |-> quiet_hours_end]

US_BOOKS == {"draftkings", "fanduel", "betmgm", "caesars", "williamhill_us"}
PINNACLE_KEY == "pinnacle"
BETFAIR_KEY == "betfair_ex_eu"

\* ------------------------------------------------------------- numeric helpers
\* round(n / d * scale) for n >= 0, d > 0, to the nearest integer, ties to even
RoundScaled(n, d, scale) ==
    LET q == (n * scale) \div d
        r == (n * scale) % d
    IN  IF 2 * r < d THEN q
        ELSE IF 2 * r > d THEN q + 1
        ELSE IF q % 2 = 0 THEN q ELSE q + 1

\* round(min(1.0, n / d), 2), in hundredths
Strength(n, d) == IF n >= d THEN 100 ELSE RoundScaled(n, d, 100)

\* american_to_implied_prob, as the fraction n / d
american_to_implied_prob(price) ==
    IF price > 0 THEN [n |-> 100, d |-> price + 100]
    ELSE [n |-> Abs(price), d |-> Abs(price) + 100]

RatAbsDiff(p, q) == [n |-> Abs(p.n * q.d - q.n * p.d), d |-> p.d * q.d]
RatLT(p, q) == p.n * q.d < q.n * p.d

\* dict.get(key, default) on a details map
Get(details, key, default) == IF key \in DOMAIN details THEN details[key] ELSE default

FlatMap(F(_), s) ==
    LET RECURSIVE go(_)
        go(i) == IF i > Len(s) THEN << >> ELSE F(s[i]) \o go(i + 1)
    IN  go(1)

\* (market, outcome) groups and the books of a group, in first-seen order
GroupKeys(rows) == Distinct([i \in 1..Len(rows) |-> <<rows[i].market_key, rows[i].outcome_name>>])
GroupRows(rows, key) ==
    SelectSeq(rows, LAMBDA r : r.market_key = key[1] /\ r.outcome_name = key[2])
BooksOf(rows) == Distinct([i \in 1..Len(rows) |-> rows[i].bookmaker_key])
EntriesOf(rows, bm) == SelectSeq(rows, LAMBDA r : r.bookmaker_key = bm)

\* current_lines.get((market, outcome, bookmaker)) as a sequence of at most one row
CurrentLine(latest, market_key, outcome_name, bm) ==
    LET hits == SelectSeq(latest, LAMBDA r : /\ r.market_key = market_key
                                             /\ r.outcome_name = outcome_name
                                             /\ r.bookmaker_key = bm)
    IN  IF hits = << >> THEN << >> ELSE <<hits[Len(hits)]>>

ValueBook(row) == [bookmaker |-> row.bookmaker_key, price |-> row.price, point |-> row.point]

\* the movement taken from the prices on every market
calc_delta_price(market_key, first, last) == 2 * (last.price - first.price)

\* first-to-last movement of one book, doubled (half points; prices times two)
calc_delta(market_key, first, last) ==
    IF market_key = "h2h" THEN 2 * (last.price - first.price)
    ELSE IF first.point /= None /\ last.point /= None
         THEN last.point[1] - first.point[1]
         ELSE 2 * (last.price - first.price)

\* ------------------------------------------------------------------ detectors
MkSignal(signal_type, rows, event_id, market_key, outcome_name, strength, details) ==
    [signal_type |-> signal_type, event_id |-> event_id, sport_key |-> rows[1].sport_key,
     market_key |-> market_key, outcome_name |-> outcome_name,
     strength |-> strength, details |-> details]

\* the moves (bookmaker, delta) of a group: books with two or more rows whose
\* first-to-last delta is not zero
GroupMoves(market_key, grp) ==
    FlatMap(LAMBDA bm :
                LET entries == SortByFetchedAt(EntriesOf(grp, bm))
                IN  IF Len(entries) < 2 THEN << >>
                    ELSE LET delta == calc_delta(market_key, entries[1], entries[Len(entries)])
                         IN  IF delta /= 0 THEN <<[bookmaker |-> bm, delta |-> delta]>>
                             ELSE << >>,
            BooksOf(grp))

\* SteamMoveDetector.detect
SteamMoveDetector(table, event_id, fetched_at) ==
    LET snapshots == get_snapshots_since(table, event_id, fetched_at - steam_window_minutes)
        latest == get_latest_snapshots(table, event_id)
        ForGroup(key) ==
            LET market_key == key[1]
                outcome_name == key[2]
                grp == GroupRows(snapshots, key)
                books == BooksOf(grp)
                moves == GroupMoves(market_key, grp)
                up == SelectSeq(moves, LAMBDA m : m.delta > 0)
                down == SelectSeq(moves, LAMBDA m : m.delta < 0)
                aligned == IF Len(up) >= Len(down) THEN up ELSE down
                direction == IF aligned = up THEN "up" ELSE "down"
                book_details == [i \in 1..Len(aligned) |->
                    LET current == CurrentLine(latest, market_key, outcome_name,
                                               aligned[i].bookmaker)
                    IN  IF current /= << >>
                        THEN [bookmaker |-> aligned[i].bookmaker, delta |-> aligned[i].delta,
                              price |-> current[1].price, point |-> current[1].point]
                        ELSE [bookmaker |-> aligned[i].bookmaker, delta |-> aligned[i].delta]]
                moved_books == {aligned[i].bookmaker : i \in 1..Len(aligned)}
                value_books == FlatMap(LAMBDA bm :
                    IF bm \in moved_books \/ bm \notin US_BOOKS THEN << >>
                    ELSE LET current == CurrentLine(latest, market_key, outcome_name, bm)
                         IN  IF current /= << >> THEN <<ValueBook(current[1])>> ELSE << >>,
                    books)
            IN  IF Len(moves) < steam_min_books THEN << >>
                ELSE IF Len(aligned) < steam_min_books THEN << >>
                ELSE <<MkSignal("steam_move", snapshots, event_id, market_key, outcome_name,
                          Strength(Len(aligned), IF Len(books) > 1 THEN Len(books) ELSE 1),
                          [direction |-> direction,
                           books_moved |-> Len(aligned),
                           avg_delta |-> RoundScaled(
                               SeqSum([i \in 1..Len(aligned) |-> Abs(aligned[i].delta)]),
                               2 * Len(aligned), 100),
                           book_details |-> book_details,
                           value_books |-> value_books])>>
    IN  IF snapshots = << >> THEN << >>
        ELSE FlatMap(ForGroup, GroupKeys(snapshots))

\* stable sort of value books by _sort_key, reverse=True
SortDesc(s0, Key(_)) ==
    LET RECURSIVE go(_)
        go(s) ==
            IF s = << >> THEN << >>
            ELSE LET m == CHOOSE i \in 1..Len(s) :
                            \A j \in 1..Len(s) :
                                \/ Key(s[i]) > Key(s[j])
                                \/ Key(s[i]) = Key(s[j]) /\ i <= j
                     rest == [k \in 1..(Len(s) - 1) |-> IF k < m THEN s[k] ELSE s[k + 1]]
                 IN  <<s[m]>> \o go(rest)
    IN  go(s0)

\* str.lower() on an outcome name
lower(name) ==
    IF name \in {"Over", "OVER", "over"} THEN "over"
    ELSE IF name \in {"Under", "UNDER", "under"} THEN "under"
    ELSE name

\* RapidChangeDetector.detect
RapidChangeDetector(table, event_id, fetched_at) ==
    LET latest == get_latest_snapshots(table, event_id)
        previous == get_previous_snapshots(table, event_id, fetched_at)
        PrevOf(row) == SelectSeq(previous, LAMBDA p :
                           /\ p.bookmaker_key = row.bookmaker_key
                           /\ p.market_key = row.market_key
                           /\ p.outcome_name = row.outcome_name)
        ForRow(row) ==
            LET prevs == PrevOf(row)
                prev == prevs[Len(prevs)]
                market_key == row.market_key
                bm == row.bookmaker_key
                usable == market_key = "h2h" \/ (row.point /= None /\ prev.point /= None)
                \* twice |delta|
                delta == IF market_key = "h2h" THEN 2 * Abs(row.price - prev.price)
                         ELSE Abs(row.point[1] - prev.point[1])
                threshold == IF market_key = "h2h" THEN rapid_ml_threshold
                             ELSE rapid_spread_threshold
                \* twice the new and the old value of the mover
                new_val == IF market_key = "h2h" THEN 2 * row.price ELSE row.point[1]
                old_val == IF market_key = "h2h" THEN 2 * prev.price ELSE prev.point[1]
                Stale(other) ==
                    IF other.bookmaker_key = bm THEN TRUE
                    ELSE IF market_key = "h2h"
                         THEN Abs(2 * other.price - old_val) < Abs(2 * other.price - new_val)
                    ELSE IF other.point /= None
                         THEN Abs(other.point[1] - old_val) < Abs(other.point[1] - new_val)
                    ELSE FALSE
                candidates == SelectSeq(latest, LAMBDA o :
                    /\ o.market_key = market_key
                    /\ o.outcome_name = row.outcome_name
                    /\ o.bookmaker_key \in US_BOOKS
                    /\ Stale(o))
                value_books == [i \in 1..Len(candidates) |-> ValueBook(candidates[i])]
                sort_key(vb) ==
                    IF market_key = "h2h" THEN vb.price
                    ELSE IF vb.point = None THEN 0
                    ELSE IF market_key = "totals" /\ lower(row.outcome_name) = "over"
                         THEN -vb.point[1]
                    ELSE vb.point[1]
            IN  IF prevs = << >> THEN << >>
                ELSE IF ~usable THEN << >>
                ELSE IF delta * threshold.d < 2 * threshold.n THEN << >>
                ELSE <<MkSignal("rapid_change", latest, event_id, market_key, row.outcome_name,
                          Strength(delta * threshold.d, 2 * 3 * threshold.n),
                          [bookmaker |-> bm,
                           old_price |-> prev.price, new_price |-> row.price,
                           old_point |-> prev.point, new_point |-> row.point,
                           delta |-> delta,
                           value_books |-> SortDesc(value_books, sort_key)])>>
    IN  IF latest = << >> \/ previous = << >> THEN << >>
        ELSE FlatMap(ForRow, latest)

\* _us_has_better_value
us_has_better_value(market_key, outcome_name, us_value, pin_value) ==
    IF market_key = "h2h" THEN us_value > pin_value
    ELSE IF market_key = "spreads" THEN us_value > pin_value
    ELSE IF market_key = "totals"
         THEN IF lower(outcome_name) = "over" THEN us_value < pin_value
              ELSE us_value > pin_value
    ELSE FALSE

\* PinnacleDivergenceDetector.detect
PinnacleDivergenceDetector(table, event_id, fetched_at) ==
    LET latest == get_latest_snapshots(table, event_id)
        ForGroup(key) ==
            LET market_key == key[1]
                outcome_name == key[2]
                grp == GroupRows(latest, key)
                pins == EntriesOf(grp, PINNACLE_KEY)
                pinnacle == pins[Len(pins)]
                ForBook(bm) ==
                    LET rows == EntriesOf(grp, bm)
                        row == rows[Len(rows)]
                        h2h == market_key = "h2h"
                        usable == h2h \/ (row.point /= None /\ pinnacle.point /= None)
                        us_val == IF h2h THEN row.price ELSE row.point[1]
                        pin_val == IF h2h THEN pinnacle.price ELSE pinnacle.point[1]
                        \* implied-probability difference, or the point difference
                        \* (us_val and pin_val are half points, so over 2)
                        delta == IF h2h
                                 THEN RatAbsDiff(american_to_implied_prob(us_val),
                                                 american_to_implied_prob(pin_val))
                                 ELSE [n |-> Abs(us_val - pin_val), d |-> 2]
                        threshold == IF h2h THEN pinnacle_ml_prob_threshold
                                     ELSE pinnacle_spread_threshold
                    IN  IF bm \notin US_BOOKS THEN << >>
                        ELSE IF ~usable THEN << >>
                        ELSE IF RatLT(delta, threshold) THEN << >>
                        ELSE IF ~us_has_better_value(market_key, outcome_name, us_val, pin_val)
                             THEN << >>
                        ELSE <<MkSignal("pinnacle_divergence", latest, event_id,
                                  market_key, outcome_name,
                                  Strength(delta.n * threshold.d, delta.d * 3 * threshold.n),
                                  IF h2h
                                  THEN [us_book |-> bm, us_value |-> us_val,
                                        pinnacle_value |-> pin_val,
                                        delta |-> RoundScaled(delta.n, delta.d, 10000),
                                        us_implied_prob |->
                                            LET p == american_to_implied_prob(us_val)
                                            IN  RoundScaled(p.n, p.d, 10000),
                                        pinnacle_implied_prob |->
                                            LET p == american_to_implied_prob(pin_val)
                                            IN  RoundScaled(p.n, p.d, 10000)]
                                  ELSE [us_book |-> bm, us_value |-> us_val,
                                        pinnacle_value |-> pin_val,
                                        delta |-> RoundScaled(delta.n, delta.d, 100)])>>
            IN  IF pins = << >> THEN << >> ELSE FlatMap(ForBook, BooksOf(grp))
    IN  IF latest = << >> THEN << >>
        ELSE FlatMap(ForGroup, GroupKeys(latest))

\* ReverseLineDetector.detect
ReverseLineDetector(table, event_id, fetched_at) ==
    LET snapshots == get_snapshots_since(table, event_id, fetched_at - steam_window_minutes)
        latest == get_latest_snapshots(table, event_id)
        ForGroup(key) ==
            LET market_key == key[1]
                outcome_name == key[2]
                grp == GroupRows(snapshots, key)
                pin_entries == SortByFetchedAt(EntriesOf(grp, PINNACLE_KEY))
                \* twice the deltas
                pin_delta == calc_delta(market_key, pin_entries[1],
                                        pin_entries[Len(pin_entries)])
                us_moves == SelectSeq(GroupMoves(market_key, grp),
                                      LAMBDA m : m.bookmaker \in US_BOOKS)
                us_sum == SeqSum([i \in 1..Len(us_moves) |-> us_moves[i].delta])
                cnt == Len(us_moves)
                us_movers == [i \in 1..cnt |-> us_moves[i].bookmaker]
                value_books == FlatMap(LAMBDA bm :
                    LET current == CurrentLine(latest, market_key, outcome_name, bm)
                    IN  IF current /= << >> THEN <<ValueBook(current[1])>> ELSE << >>,
                    us_movers)
            IN  IF Len(pin_entries) < 2 THEN << >>
                ELSE IF pin_delta = 0 THEN << >>
                ELSE IF cnt < 2 THEN << >>
                ELSE IF (us_sum > 0 /\ pin_delta < 0) \/ (us_sum < 0 /\ pin_delta > 0)
                THEN <<MkSignal("reverse_line", snapshots, event_id, market_key, outcome_name,
                          \* (|us_avg| + |pin_delta|) / 4.0 with both deltas doubled
                          Strength(Abs(us_sum) + cnt * Abs(pin_delta), 2 * 4 * cnt),
                          [us_direction |-> IF us_sum > 0 THEN "up" ELSE "down",
                           us_avg_delta |-> (IF us_sum < 0 THEN -1 ELSE 1)
                                            * RoundScaled(Abs(us_sum), 2 * cnt, 100),
                           us_movers |-> us_movers,
                           pinnacle_direction |-> IF pin_delta > 0 THEN "up" ELSE "down",
                           pinnacle_delta |-> pin_delta,
                           bet_direction |-> IF pin_delta > 0 THEN "up" ELSE "down",
                           value_books |-> value_books])>>
                ELSE << >>
    IN  IF snapshots = << >> THEN << >>
        ELSE FlatMap(ForGroup, GroupKeys(snapshots))

\* ExchangeMonitorDetector.detect
ExchangeMonitorDetector(table, event_id, fetched_at) ==
    LET latest == get_latest_snapshots(table, event_id)
        previous == get_previous_snapshots(table, event_id, fetched_at)
        prev_betfair == SelectSeq(previous, LAMBDA r : r.bookmaker_key = BETFAIR_KEY)
        us_current == SelectSeq(latest, LAMBDA r : r.bookmaker_key \in US_BOOKS)
        ForRow(row) ==
            LET prevs == SelectSeq(prev_betfair, LAMBDA p :
                             p.market_key = row.market_key /\ p.outcome_name = row.outcome_name)
                prev == prevs[Len(prevs)]
                old_prob == american_to_implied_prob(prev.price)
                new_prob == american_to_implied_prob(row.price)
                shift == RatAbsDiff(new_prob, old_prob)
                direction == IF RatLT(old_prob, new_prob) THEN "shortened" ELSE "drifted"
                hits == SelectSeq(us_current, LAMBDA u :
                    /\ u.market_key = row.market_key
                    /\ u.outcome_name = row.outcome_name
                    /\ LET us_prob == american_to_implied_prob(u.price)
                       IN  \/ direction = "shortened" /\ RatLT(us_prob, new_prob)
                           \/ direction = "drifted" /\ RatLT(new_prob, us_prob))
                value_books == [i \in 1..Len(hits) |->
                    [bookmaker |-> hits[i].bookmaker_key,
                     current_line |-> hits[i].price,
                     implied_prob |-> LET p == american_to_implied_prob(hits[i].price)
                                      IN  RoundScaled(p.n, p.d, 10000)]]
            IN  IF row.bookmaker_key /= BETFAIR_KEY THEN << >>
                ELSE IF row.market_key /= "h2h" THEN << >>
                ELSE IF prevs = << >> THEN << >>
                ELSE IF RatLT(shift, exchange_shift_threshold) THEN << >>
                ELSE <<MkSignal("exchange_shift", latest, event_id,
                          row.market_key, row.outcome_name,
                          \* min(1.0, shift / 0.15)
                          Strength(shift.n * 100, shift.d * 15),
                          [old_price |-> prev.price, new_price |-> row.price,
                           old_implied_prob |-> RoundScaled(old_prob.n, old_prob.d, 10000),
                           new_implied_prob |-> RoundScaled(new_prob.n, new_prob.d, 10000),
                           shift |-> RoundScaled(shift.n, shift.d, 10000),
                           direction |-> direction,
                           value_books |-> value_books])>>
    IN  IF latest = << >> \/ previous = << >> THEN << >>
        ELSE IF prev_betfair = << >> THEN << >>
        ELSE FlatMap(ForRow, latest)

\* DetectionPipeline._detectors, in order
Detectors == <<"SteamMoveDetector", "RapidChangeDetector", "PinnacleDivergenceDetector",
               "ReverseLineDetector", "ExchangeMonitorDetector">>

detect(detector, table, event_id, fetched_at) ==
    CASE detector = "SteamMoveDetector" -> SteamMoveDetector(table, event_id, fetched_at)
      [] detector = "RapidChangeDetector" -> RapidChangeDetector(table, event_id, fetched_at)
      [] detector = "PinnacleDivergenceDetector" ->
             PinnacleDivergenceDetector(table, event_id, fetched_at)
      [] detector = "ReverseLineDetector" -> ReverseLineDetector(table, event_id, fetched_at)
      [] detector = "ExchangeMonitorDetector" ->
             ExchangeMonitorDetector(table, event_id, fetched_at)

\* ------------------------------------------------------------ sent alerts
\* Repository.was_alert_sent_recently; outcome_name = None asks at market level
was_alert_sent_recently(alerts, clock, event_id, alert_type, market_key, cooldown_minutes, outcome_name) ==
    \E i \in 1..Len(alerts) :
        /\ alerts[i].event_id = event_id
        /\ alerts[i].alert_type = alert_type
        /\ alerts[i].market_key = market_key
        /\ outcome_name /= None => alerts[i].outcome_name = outcome_name[1]
        /\ TextGE(isoformat(alerts[i].sent_at), sqlite_datetime(clock, cooldown_minutes))

\* Repository.record_alert
record_alert(alerts, clock, event_id, alert_type, market_key, outcome_name) ==
    Append(alerts, [event_id |-> event_id, alert_type |-> alert_type,
                    market_key |-> market_key, outcome_name |-> outcome_name,
                    sent_at |-> clock])

\* ------------------------------------------------------------------ pipeline
\* first element of a non-empty sequence with the largest key (Python max)
MaxBy(s, Better(_, _)) ==
    s[CHOOSE i \in 1..Len(s) :
          /\ \A j \in 1..Len(s) : ~Better(s[j], s[i])
          /\ \A j \in 1..(i - 1) : Better(s[i], s[j])]

FirstWhere(s, P(_)) == SelectSeq(s, P)[1]
HasWhere(s, P(_)) == \E i \in 1..Len(s) : P(s[i])

\* the fallback of _pick_best_signal: most value books, then highest strength
FallbackPick(sigs) ==
    MaxBy(sigs, LAMBDA a, b :
        LET la == Len(Get(a.details, "value_books", << >>))
            lb == Len(Get(b.details, "value_books", << >>))
        IN  la > lb \/ (la = lb /\ a.strength > b.strength))

\* _pick_best_signal keeping the first signal of the group
pick_first_signal(sigs) == sigs[1]

\* _pick_best_signal
pick_best_signal(sigs) ==
    LET sig_type == sigs[1].signal_type
        market == sigs[1].market_key
        FollowsPinnacle(s) == Get(s.details, "pinnacle_delta", 0) > 0
        SteamSide(s) ==
            LET direction == Get(s.details, "direction", "")
            IN  IF market = "totals"
                THEN \/ lower(s.outcome_name) = "over" /\ direction = "up"
                     \/ lower(s.outcome_name) = "under" /\ direction = "down"
                ELSE direction = "down"
        Shortened(s) == Get(s.details, "direction", "") = "shortened"
    IN  IF Len(sigs) = 1 THEN sigs[1]
        ELSE IF sig_type = "reverse_line" /\ HasWhere(sigs, FollowsPinnacle)
             THEN FirstWhere(sigs, FollowsPinnacle)
        ELSE IF sig_type = "steam_move" /\ HasWhere(sigs, SteamSide)
             THEN FirstWhere(sigs, SteamSide)
        ELSE IF sig_type = "exchange_shift" /\ HasWhere(sigs, Shortened)
             THEN FirstWhere(sigs, Shortened)
        ELSE IF sig_type = "rapid_change"
             THEN MaxBy(sigs, LAMBDA a, b :
                      Abs(Get(a.details, "delta", 0)) > Abs(Get(b.details, "delta", 0)))
        ELSE FallbackPick(sigs)

GroupKey(sig) == <<sig.event_id, sig.signal_type, sig.market_key>>

\* variant: no try/except around detector.detect, a raise ends the run
all_signals_unguarded(table, fetched_at, raising) ==
    IF raising /= {} THEN << >>
    ELSE FlatMap(LAMBDA event_id :
                     FlatMap(LAMBDA detector : detect(detector, table, event_id, fetched_at),
                             Detectors),
                 get_distinct_event_ids_at(table, fetched_at))

\* the detector calls of one run: every (event, detector) in order; a call in
\* `raising` raises and contributes nothing
all_signals_of(table, fetched_at, raising) ==
    FlatMap(LAMBDA event_id :
                FlatMap(LAMBDA detector :
                            IF <<event_id, detector>> \in raising THEN << >>
                            ELSE detect(detector, table, event_id, fetched_at),
                        Detectors),
            get_distinct_event_ids_at(table, fetched_at))

\* variant: no strength filter
strong_signals_unfiltered(all_signals) == all_signals

strong_signals_of(all_signals) ==
    SelectSeq(all_signals, LAMBDA s : s.strength >= min_signal_strength)

\* variant: no market-side collapse
deduped_signals_uncollapsed(strong_signals) == strong_signals

deduped_signals_of(strong_signals) ==
    LET keys == Distinct([i \in 1..Len(strong_signals) |-> GroupKey(strong_signals[i])])
    IN  FlatMap(LAMBDA key :
                    LET sigs == SelectSeq(strong_signals, LAMBDA s : GroupKey(s) = key)
                    IN  IF Len(sigs) <= 1 THEN sigs ELSE <<pick_best_signal(sigs)>>,
                keys)

\* variant: no cooldown check
new_signals_unchecked(alerts, clock, deduped_signals) == deduped_signals

new_signals_of(alerts, clock, deduped_signals) ==
    SelectSeq(deduped_signals, LAMBDA sig :
        ~was_alert_sent_recently(alerts, clock, sig.event_id, sig.signal_type,
                                 sig.market_key, alert_cooldown_minutes,
                                 Some(sig.outcome_name)))

\* DetectionPipeline.run: the list returned
run(table, alerts, clock, fetched_at, raising) ==
    new_signals_of(alerts, clock,
        deduped_signals_of(strong_signals_of(all_signals_of(table, fetched_at, raising))))

\* ------------------------------------------------------------------ the store API
StartTime == 1400     \* 23:20 UTC of the first day
poll_interval_minutes == 20

Snapshot(event_id, sport_key, bm, market_key, outcome_name, price, point, fetched_at) ==
    [event_id |-> event_id, sport_key |-> sport_key, bookmaker_key |-> bm,
     market_key |-> market_key, outcome_name |-> outcome_name,
     price |-> price, point |-> point, fetched_at |-> fetched_at]

StoreTimes == {StartTime, StartTime + poll_interval_minutes}

StoreRows ==
    {Snapshot("e1", "basketball_nba", "draftkings", "h2h", "Lakers", p, None, t) :
        p \in {100, 160}, t \in StoreTimes}
    \cup
    {Snapshot("e2", "basketball_nba", "draftkings", "h2h", "Lakers", 100, None, t) :
        t \in StoreTimes}
    \cup
    {Snapshot("e1", "basketball_nba", PINNACLE_KEY, "h2h", "Lakers", 100, None, t) :
        t \in StoreTimes}

Batches(rows, n) == UNION {[1..k -> rows] : k \in 0..n}

NoRun == << >>
NoSend == << >>

\* the poll job between two cycles: Poller.__init__ and create_scheduler
IdlePoller(cycle_count, next_run_time) ==
    [pc |-> "idle", cycle_count |-> cycle_count, next_run_time |-> next_run_time,
     rows_before |-> 0, fetched_at |-> None, active |-> {}, todo |-> << >>,
     results |-> << >>, instances |-> 0]

\* the process right after main() built its objects, started with the
\* Settings conf on an empty database
Installed(conf) ==
    /\ now = StartTime
    /\ odds_snapshots = << >>
    /\ sent_alerts = << >>
    /\ insert_ret = [offered |-> 0, inserted |-> 0]
    /\ last_run = NoRun
    /\ send_log = NoSend
    /\ api_usage = << >>
    /\ signal_results = << >>
    /\ low_budget_warned = FALSE
    /\ poller = IdlePoller(0, StartTime)
    /\ settings = conf
    /\ budget_warnings = << >>

Init == Installed(ConfiguredSettings)

\* a caller of Repository.insert_snapshots
InsertSnapshots(rows) ==
    LET ret == insert_snapshots(odds_snapshots, rows)
    IN  /\ Len(ret.table) <= MaxRows
        /\ odds_snapshots' = ret.table
        /\ insert_ret' = [offered |-> Len(rows), inserted |-> ret.inserted]
        /\ UNCHANGED <<now, sent_alerts, last_run, send_log, poller_vars>>

StoreInsert == \E rows \in Batches(StoreRows, MaxBatch) : InsertSnapshots(rows)

NextStore == StoreInsert

SpecStore == Init /\ [][NextStore]_vars

\* C8: the store never holds two rows with the same (event_id, bookmaker_key,
\* market_key, outcome_name, fetched_at); an insert_snapshots call leaves every
\* stored row as it was and returns the number of rows it added, so that a row
\* whose key is already present is dropped without error and is not counted.
UniqueKeys(table) ==
    \A i, j \in 1..Len(table) : SnapKey(table[i]) = SnapKey(table[j]) => i = j

C8_InsertIgnoresDuplicates ==
    [][/\ UniqueKeys(odds_snapshots')
       /\ Len(odds_snapshots') >= Len(odds_snapshots)
       /\ SubSeq(odds_snapshots', 1, Len(odds_snapshots)) = odds_snapshots
       /\ insert_ret'.inserted = Len(odds_snapshots') - Len(odds_snapshots)
       /\ insert_ret'.inserted <= insert_ret'.offered]_vars

\* a call that offered a row whose key was already stored (or offered twice)
C8_Witness ==
    /\ insert_ret.offered = 2
    /\ insert_ret.inserted < insert_ret.offered
    /\ Len(odds_snapshots) >= 2

\* C9: get_previous_snapshots(E, T) holds, for each (bookmaker, market, outcome)
\* of event E with a row fetched before T, exactly one row, the one fetched
\* last before T, and no row for a combination without a row before T.
QueryTimes == StoreTimes \cup {t + poll_interval_minutes : t \in StoreTimes}

C9_PreviousIsLatestBefore ==
    \A e \in {"e1", "e2"}, T \in QueryTimes :
        LET res == get_previous_snapshots(odds_snapshots, e, T)
            Combo(r) == <<r.bookmaker_key, r.market_key, r.outcome_name>>
            Prior(c) == {j \in 1..Len(odds_snapshots) :
                            /\ odds_snapshots[j].event_id = e
                            /\ Combo(odds_snapshots[j]) = c
                            /\ odds_snapshots[j].fetched_at < T}
            Hits(c) == {i \in 1..Len(res) : Combo(res[i]) = c}
        IN  /\ \A i \in 1..Len(res) : res[i].event_id = e
            /\ \A c \in {Combo(r) : r \in StoreRows} :
                  IF Prior(c) = {} THEN Hits(c) = {}
                  ELSE /\ Cardinality(Hits(c)) = 1
                       /\ \A i \in Hits(c) :
                             /\ \E j \in Prior(c) : odds_snapshots[j] = res[i]
                             /\ \A j \in Prior(c) :
                                   odds_snapshots[j].fetched_at <= res[i].fetched_at

\* a query that returns the later of two earlier rows of one combination and
\* leaves out a row fetched at T itself
C9_Witness ==
    \E e \in {"e1", "e2"} :
        LET T == StartTime + poll_interval_minutes
            res == get_previous_snapshots(odds_snapshots, e, T + poll_interval_minutes)
            res1 == get_previous_snapshots(odds_snapshots, e, T)
        IN  /\ \E i \in 1..Len(res) : res[i].fetched_at = T
            /\ \E j \in 1..Len(odds_snapshots) :
                  /\ odds_snapshots[j].event_id = e
                  /\ odds_snapshots[j].fetched_at = StartTime
                  /\ odds_snapshots[j].bookmaker_key = "draftkings"
            /\ \E j \in 1..Len(odds_snapshots) :
                  /\ odds_snapshots[j].event_id = e
                  /\ odds_snapshots[j].fetched_at = T
                  /\ odds_snapshots[j].bookmaker_key = "draftkings"
            /\ \A i \in 1..Len(res) : res[i].fetched_at = T
            /\ \A i \in 1..Len(res1) : res1[i].fetched_at = StartTime
            /\ Len(res1) >= 1

\* ------------------------------------------------------------------ upstream
\* one outcome line of an odds response: event.bookmakers[].markets[].outcomes[]
Line(bm, market_key, outcome_name, price, point) ==
    [bookmaker |-> bm, market |-> market_key, outcome |-> outcome_name,
     price |-> price, point |-> point]

Event(id, sport_key, commence_time, lines) ==
    [id |-> id, sport_key |-> sport_key, commence_time |-> commence_time, lines |-> lines]

\* the first NBA game as the upstream quotes it: DraftKings moves, Pinnacle stays
NbaEvent(lakers, celtics) ==
    Event("e1", "basketball_nba", Some(StartTime + 60),
          <<Line("draftkings", "h2h", "Lakers", lakers, None),
            Line("draftkings", "h2h", "Celtics", celtics, None),
            Line(PINNACLE_KEY, "h2h", "Lakers", 100, None),
            Line(PINNACLE_KEY, "h2h", "Celtics", 100, None)>>)

\* the second NBA game: DraftKings stands off Pinnacle on the Heat
HeatEvent ==
    Event("e2", "basketball_nba", Some(StartTime + 90),
          <<Line("draftkings", "h2h", "Heat", 160, None),
            Line(PINNACLE_KEY, "h2h", "Heat", 100, None)>>)

NbaQuotes == {<<100, 100>>, <<125, 100>>, <<160, 160>>, <<100, 160>>}

NbaResponses == {<<NbaEvent(q[1], q[2]), HeatEvent>> : q \in NbaQuotes}

\* variant: every call stamps its rows with its own datetime.now()
FlattenRowsAtArrival(events, fetched_at, clock) ==
    FlatMap(LAMBDA event :
                [i \in 1..Len(event.lines) |->
                    Snapshot(event.id, event.sport_key, event.lines[i].bookmaker,
                             event.lines[i].market, event.lines[i].outcome,
                             event.lines[i].price, event.lines[i].point, clock)],
            events)

\* OddsClient.fetch_odds, "Flatten into snapshot rows": fetched_at is None or
\* the cycle's timestamp, clock is datetime.now() after the response arrived
FlattenRows(events, fetched_at, clock) ==
    LET now_ == IF fetched_at /= None THEN fetched_at[1] ELSE clock
    IN  FlatMap(LAMBDA event :
                    [i \in 1..Len(event.lines) |->
                        Snapshot(event.id, event.sport_key, event.lines[i].bookmaker,
                                 event.lines[i].market, event.lines[i].outcome,
                                 event.lines[i].price, event.lines[i].point, now_)],
                events)

\* ------------------------------------------------------------------ alert sink
\* DiscordAlerter.send_signals: outcomes[i] is what the webhook does with
\* signal i: "ok" (2xx), "http4xx" (execute returns a 4xx response) or
\* "raise" (execute raises).  Returns the ledger and, per signal, whether a
\* row was recorded.
send_signals(alerts, clock, signals, outcomes) ==
    LET RECURSIVE go(_, _, _)
        go(i, led, rec) ==
            IF i > Len(signals) THEN [alerts |-> led, recorded |-> rec]
            ELSE IF outcomes[i] = "raise"
                 THEN go(i + 1, led, Append(rec, FALSE))
                 ELSE go(i + 1,
                         record_alert(led, clock, signals[i].event_id,
                                      signals[i].signal_type, signals[i].market_key,
                                      signals[i].outcome_name),
                         Append(rec, TRUE))
    IN  go(1, alerts, << >>)

SinkOutcomes == {"ok", "http4xx", "raise"}

\* ------------------------------------------------- the pipeline and its callers
FetchTimes(table) == {table[i].fetched_at : i \in 1..Len(table)}

\* the detector calls that raise in one run: none, or one call for the first game
RaisingSets ==
    {{}, {<<"e1", "RapidChangeDetector">>}, {<<"e1", "PinnacleDivergenceDetector">>}}

\* DetectionPipeline.run(fetched_at), stage by stage, and what its caller
\* holds afterwards
PipelineRun(fetched_at, raising) ==
    \E all_signals \in {all_signals_of(odds_snapshots, fetched_at, raising)} :
    \E strong_signals \in {strong_signals_of(all_signals)} :
    \E deduped_signals \in {deduped_signals_of(strong_signals)} :
        last_run' = [fetched_at |-> fetched_at, raising |-> raising,
                     all_signals |-> all_signals,
                     strong_signals |-> strong_signals,
                     result |-> new_signals_of(sent_alerts, now, deduped_signals),
                     second |-> None]

\* DiscordAlerter.send_signals on the signals the last run returned
SendSignals(outcomes) ==
    LET sent == send_signals(sent_alerts, now, last_run.result, outcomes)
    IN  /\ sent_alerts' = sent.alerts
        /\ send_log' = [signals |-> last_run.result, outcomes |-> outcomes,
                        recorded |-> sent.recorded,
                        alerts_before |-> Len(sent_alerts)]

\* a poll interval passes and fetch_odds stores what the upstream quotes
NbaFetch ==
    \E events \in NbaResponses :
        LET at == now + poll_interval_minutes
            rows == FlattenRows(events, Some(at), at)
            ret == insert_snapshots(odds_snapshots, rows)
        IN  /\ Cardinality(FetchTimes(odds_snapshots)) < MaxFetches
            /\ now' = at
            /\ odds_snapshots' = ret.table
            /\ insert_ret' = [offered |-> Len(rows), inserted |-> ret.inserted]
            /\ last_run' = NoRun
            /\ send_log' = NoSend
            /\ UNCHANGED <<sent_alerts, poller_vars>>

\* the poll cycle runs the pipeline on what it has just fetched
Detect ==
    /\ odds_snapshots /= << >>
    /\ last_run = NoRun
    /\ \E raising \in RaisingSets : PipelineRun(now, raising)
    /\ UNCHANGED <<now, odds_snapshots, sent_alerts, insert_ret, send_log, poller_vars>>

\* ... and sends what the pipeline returned
Dispatch ==
    /\ last_run /= NoRun
    /\ send_log = NoSend
    /\ \E outcomes \in [1..Len(last_run.result) -> SinkOutcomes] : SendSignals(outcomes)
    /\ UNCHANGED <<now, odds_snapshots, insert_ret, last_run, poller_vars>>

\* DetectionPipeline.run is called again for the same fetched_at
Rerun ==
    /\ last_run /= NoRun
    /\ send_log /= NoSend
    /\ last_run.second = None
    /\ last_run' = [last_run EXCEPT
                       !.second = Some(run(odds_snapshots, sent_alerts, now,
                                           last_run.fetched_at, last_run.raising))]
    /\ UNCHANGED <<now, odds_snapshots, sent_alerts, insert_ret, send_log, poller_vars>>

NextPipeline == NbaFetch \/ Detect \/ Dispatch \/ Rerun

SpecPipeline == Init /\ [][NextPipeline]_vars

TypeOK ==
    /\ now \in Nat
    /\ UniqueKeys(odds_snapshots)
    /\ \A i \in 1..Len(sent_alerts) : sent_alerts[i].sent_at <= now


\* ---------------------------------------------------- properties of the pipeline
Returned == IF last_run = NoRun THEN << >> ELSE last_run.result

\* the ledger as the last run saw it
LedgerAtRun ==
    IF send_log = NoSend THEN sent_alerts
    ELSE SubSeq(sent_alerts, 1, send_log.alerts_before)

AllRecorded ==
    /\ last_run /= NoRun
    /\ send_log /= NoSend
    /\ send_log.signals = last_run.result
    /\ \A i \in 1..Len(send_log.recorded) : send_log.recorded[i]

C2_OppositeSideSuppressed ==
    \A i \in 1..Len(Returned) : \A j \in 1..Len(LedgerAtRun) :
        LET s == Returned[i]
            a == LedgerAtRun[j]
        IN  ~(/\ a.event_id = s.event_id
              /\ a.alert_type = s.signal_type
              /\ a.market_key = s.market_key
              /\ a.outcome_name /= s.outcome_name
              /\ now - a.sent_at <= alert_cooldown_minutes)

\* C3: the list a run returns never holds two signals of one
\* (event_id, signal_type, market_key), whatever fired for that group.
C3_OnePerGroup ==
    \A i, j \in 1..Len(Returned) :
        GroupKey(Returned[i]) = GroupKey(Returned[j]) => i = j

\* a run in which two outcomes of one group passed the strength filter and one
\* signal of that group was returned
C3_Witness ==
    /\ last_run /= NoRun
    /\ \E i, j \in 1..Len(last_run.strong_signals) :
          /\ i /= j
          /\ GroupKey(last_run.strong_signals[i]) = GroupKey(last_run.strong_signals[j])
          /\ \E k \in 1..Len(last_run.result) :
                GroupKey(last_run.result[k]) = GroupKey(last_run.strong_signals[i])

\* C4: every signal a run returns has strength >= min_signal_strength.
C4_StrengthFloor ==
    \A i \in 1..Len(Returned) : Returned[i].strength >= min_signal_strength

\* a run whose detectors emitted a signal below the floor and which returned
\* another signal
C4_Witness ==
    /\ last_run /= NoRun
    /\ \E i \in 1..Len(last_run.all_signals) :
          last_run.all_signals[i].strength < min_signal_strength
    /\ last_run.result /= << >>

\* C6 (as stated): send_signals writes a SentAlert row for a signal only if
\* the dispatch succeeded: no row when the sink raised or answered 4xx.
C6_RecordOnlyOnSuccess ==
    send_log /= NoSend =>
        /\ Len(sent_alerts) - send_log.alerts_before =
               Cardinality({i \in 1..Len(send_log.signals) : send_log.outcomes[i] = "ok"})
        /\ \A i \in 1..Len(send_log.signals) :
               send_log.recorded[i] => send_log.outcomes[i] = "ok"

\* C7: a detector call that raises does not stop the run: every other call of
\* the run (same event, later events) contributes exactly what it emits, and
\* what those calls emit goes through to the returned list.
SignalTypeOf(detector) ==
    CASE detector = "SteamMoveDetector" -> "steam_move"
      [] detector = "RapidChangeDetector" -> "rapid_change"
      [] detector = "PinnacleDivergenceDetector" -> "pinnacle_divergence"
      [] detector = "ReverseLineDetector" -> "reverse_line"
      [] detector = "ExchangeMonitorDetector" -> "exchange_shift"

C7_DetectorIsolation ==
    last_run /= NoRun =>
        LET T == last_run.fetched_at
            events == get_distinct_event_ids_at(odds_snapshots, T)
        IN  /\ \A e \in Range(events) : \A k \in 1..Len(Detectors) :
                  LET d == Detectors[k]
                      from == SelectSeq(last_run.all_signals, LAMBDA s :
                                  s.event_id = e /\ s.signal_type = SignalTypeOf(d))
                  IN  IF <<e, d>> \in last_run.raising THEN from = << >>
                      ELSE from = detect(d, odds_snapshots, e, T)
            /\ \A i \in 1..Len(last_run.all_signals) :
                  LET s == last_run.all_signals[i]
                  IN  s.strength >= min_signal_strength =>
                         \/ \E k \in 1..Len(last_run.result) :
                                GroupKey(last_run.result[k]) = GroupKey(s)
                         \/ \E j \in 1..Len(LedgerAtRun) :
                                /\ LedgerAtRun[j].event_id = s.event_id
                                /\ LedgerAtRun[j].alert_type = s.signal_type
                                /\ LedgerAtRun[j].market_key = s.market_key

\* a run in which a detector raised for the first game, and signals of another
\* detector for that game and of the second game were returned
C7_Witness ==
    /\ last_run /= NoRun
    /\ last_run.raising = {<<"e1", "RapidChangeDetector">>}
    /\ \E i, j \in 1..Len(last_run.result) :
          /\ last_run.result[i].event_id = "e1"
          /\ last_run.result[i].signal_type = "pinnacle_divergence"
          /\ last_run.result[j].event_id = "e2"
    /\ detect("RapidChangeDetector", odds_snapshots, "e1", last_run.fetched_at) /= << >>


\* ------------------------------------------------------- the alert ledger API
AlertOutcomes == {"Lakers", "Celtics"}

\* time passes between calls
ClockTick ==
    /\ \E step \in {poll_interval_minutes, alert_cooldown_minutes + 1} :
          /\ now + step <= StartTime + MaxElapsed
          /\ now' = now + step
    /\ last_run' = NoRun
    /\ UNCHANGED <<odds_snapshots, sent_alerts, insert_ret, send_log, poller_vars>>

\* a caller of Repository.record_alert
RecordAlert ==
    /\ Len(sent_alerts) < MaxAlerts
    /\ \E outcome \in AlertOutcomes :
          sent_alerts' = record_alert(sent_alerts, now, "e1", "rapid_change", "h2h", outcome)
    /\ last_run' = NoRun
    /\ UNCHANGED <<now, odds_snapshots, insert_ret, send_log, poller_vars>>

\* a caller of Repository.was_alert_sent_recently
AlertQuery ==
    /\ \E outcome \in AlertOutcomes :
          last_run' = [outcome_name |-> outcome, at |-> now,
                       answer |-> was_alert_sent_recently(
                                      sent_alerts, now, "e1", "rapid_change", "h2h",
                                      alert_cooldown_minutes, Some(outcome))]
    /\ UNCHANGED <<now, odds_snapshots, sent_alerts, insert_ret, send_log, poller_vars>>

NextAlerts == ClockTick \/ RecordAlert \/ AlertQuery

SpecAlerts == Init /\ [][NextAlerts]_vars

\* C5 (as stated): was_alert_sent_recently(event, type, market, N, outcome) is
\* true exactly when a row of that (event, type, market, outcome) has sent_at
\* within the N minutes before the query; a row older than N minutes never
\* makes it true.
C5_RecentExactlyWithinWindow ==
    last_run /= NoRun =>
        (last_run.answer <=>
            \E i \in 1..Len(sent_alerts) :
                /\ sent_alerts[i].event_id = "e1"
                /\ sent_alerts[i].alert_type = "rapid_change"
                /\ sent_alerts[i].market_key = "h2h"
                /\ sent_alerts[i].outcome_name = last_run.outcome_name
                /\ last_run.at - sent_alerts[i].sent_at <= alert_cooldown_minutes)


\* ------------------------------------------------------------- the poll cycle
\* Settings
sports == <<"basketball_nba", "americanfootball_nfl">>

CREDITS_PER_POLL == 9

MinutesPerHour == 60

\* datetime.hour
hour_of(t) == (t % MinutesPerDay) \div MinutesPerHour

\* Poller.poll_cycle: in_quiet
in_quiet(hour) ==
    IF settings.quiet_hours_start < settings.quiet_hours_end
    THEN settings.quiet_hours_start <= hour /\ hour < settings.quiet_hours_end
    ELSE hour >= settings.quiet_hours_start \/ hour < settings.quiet_hours_end

\* Repository.get_credits_remaining
get_credits_remaining(usage) ==
    IF usage = << >> THEN None ELSE Some(usage[Len(usage)].credits_remaining)

\* Repository.record_api_usage
record_api_usage(usage, clock, endpoint, credits_used, credits_remaining) ==
    Append(usage, [timestamp |-> clock, endpoint |-> endpoint,
                   credits_used |-> credits_used,
                   credits_remaining |-> credits_remaining])

\* OddsClient._track_credits: headers is None when the response carries no
\* credit headers, else <<[used, remaining]>>
track_credits(usage, clock, endpoint, headers) ==
    IF headers = None THEN usage
    ELSE record_api_usage(usage, clock, endpoint, headers[1].used, headers[1].remaining)

\* should_poll with the 20% limit exclusive
should_poll_below(usage, warned) ==
    LET remaining == get_credits_remaining(usage)
    IN  IF remaining = None
        THEN [ok |-> TRUE, warned |-> warned, warning_sent |-> FALSE]
        ELSE IF remaining[1] * 100 < settings.odds_api_monthly_credits * 20
        THEN [ok |-> FALSE, warned |-> TRUE, warning_sent |-> ~warned]
        ELSE IF remaining[1] < CREDITS_PER_POLL
        THEN [ok |-> FALSE, warned |-> warned, warning_sent |-> FALSE]
        ELSE [ok |-> TRUE, warned |-> warned, warning_sent |-> FALSE]

\* should_poll denying only until the warning has gone out
should_poll_once(usage, warned) ==
    LET remaining == get_credits_remaining(usage)
    IN  IF remaining = None \/ warned
        THEN [ok |-> TRUE, warned |-> warned, warning_sent |-> FALSE]
        ELSE IF remaining[1] * 100 <= settings.odds_api_monthly_credits * 20
        THEN [ok |-> FALSE, warned |-> TRUE, warning_sent |-> ~warned]
        ELSE IF remaining[1] < CREDITS_PER_POLL
        THEN [ok |-> FALSE, warned |-> warned, warning_sent |-> FALSE]
        ELSE [ok |-> TRUE, warned |-> warned, warning_sent |-> FALSE]

\* BudgetTracker.should_poll: the answer, the flag afterwards, and whether the
\* low-budget warning was sent (settings is read where the code reads
\* self._settings)
should_poll(usage, warned) ==
    LET remaining == get_credits_remaining(usage)
    IN  IF remaining = None
        THEN [ok |-> TRUE, warned |-> warned, warning_sent |-> FALSE]
        ELSE IF remaining[1] * 100 <= settings.odds_api_monthly_credits * 20
        THEN [ok |-> FALSE, warned |-> TRUE, warning_sent |-> ~warned]
        ELSE IF remaining[1] < CREDITS_PER_POLL
        THEN [ok |-> FALSE, warned |-> warned, warning_sent |-> FALSE]
        ELSE [ok |-> TRUE, warned |-> warned, warning_sent |-> FALSE]

\* BudgetTracker._send_budget_warning: one embed executed on the webhook
send_budget_warning(warnings, remaining) ==
    Append(warnings, [remaining |-> remaining,
                      monthly |-> settings.odds_api_monthly_credits])

\* smart.PollPriority
HIGH == 1
MEDIUM == 2
LOW == 4

\* classify_event with the two limits exclusive
classify_event_exclusive(event, clock) ==
    IF event.commence_time = None THEN HIGH
    ELSE LET minutes_until == event.commence_time[1] - clock
         IN  IF minutes_until < 2 * MinutesPerHour THEN HIGH
             ELSE IF minutes_until < 12 * MinutesPerHour THEN MEDIUM
             ELSE LOW

\* smart.classify_event; a commence_time that does not parse is None
classify_event(event, clock) ==
    IF event.commence_time = None THEN HIGH
    ELSE LET minutes_until == event.commence_time[1] - clock
         IN  IF minutes_until <= 2 * MinutesPerHour THEN HIGH
             ELSE IF minutes_until <= 12 * MinutesPerHour THEN MEDIUM
             ELSE LOW

\* smart.should_poll_event
should_poll_event(event, cycle_count, clock) ==
    cycle_count % classify_event(event, clock) = 0

\* smart.filter_events_for_cycle
filter_events_for_cycle(events, cycle_count, clock) ==
    SelectSeq(events, LAMBDA event : should_poll_event(event, cycle_count, clock))

\* PerformanceTracker._extract_direction
extract_direction(signal) ==
    LET details == signal.details
    IN  IF "direction" \in DOMAIN details THEN <<details.direction>>
        ELSE IF "us_direction" \in DOMAIN details
        THEN <<"us", details.us_direction, "pin", Get(details, "pinnacle_direction", "?")>>
        ELSE IF "delta" \in DOMAIN details
        THEN <<IF details.delta > 0 THEN "up" ELSE "down">>
        ELSE <<"unknown">>

ResultKey(r) == <<r.event_id, r.signal_type, r.market_key, r.outcome_name, r.signal_at>>

\* Repository.record_signal_result: INSERT OR IGNORE on the table's unique key
record_signal_result(results, event_id, signal_type, market_key, outcome_name, signal_direction, signal_strength, signal_at) ==
    LET r == [event_id |-> event_id, signal_type |-> signal_type,
              market_key |-> market_key, outcome_name |-> outcome_name,
              signal_direction |-> signal_direction,
              signal_strength |-> signal_strength, signal_at |-> signal_at,
              result |-> None, resolved_at |-> None]
    IN  IF \E i \in 1..Len(results) : ResultKey(results[i]) = ResultKey(r)
        THEN results ELSE Append(results, r)

\* PerformanceTracker.record_signals
record_signals(results, signals, fetched_at) ==
    LET RECURSIVE go(_, _)
        go(i, acc) ==
            IF i > Len(signals) THEN acc
            ELSE go(i + 1,
                    record_signal_result(acc, signals[i].event_id, signals[i].signal_type,
                                         signals[i].market_key, signals[i].outcome_name,
                                         extract_direction(signals[i]),
                                         signals[i].strength, fetched_at))
    IN  go(1, results)


\* the NFL game as the upstream quotes it, ten hours before kick-off:
\* DraftKings gives the Chiefs -5.0, Pinnacle -7.0
NflEvent ==
    Event("e3", "americanfootball_nfl", Some(StartTime + 600),
          <<Line("draftkings", "spreads", "Chiefs", -110, Some(-10)),
            Line(PINNACLE_KEY, "spreads", "Chiefs", -110, Some(-14))>>)

\* what GET /sports/{sport_key}/odds may answer
UpstreamOdds(sport_key) ==
    IF sport_key = "basketball_nba"
    THEN {<<NbaEvent(160, 160)>>, <<NbaEvent(100, 160)>>}
    ELSE {<<NflEvent>>}

\* x-requests-used / x-requests-remaining of a 2xx odds response: the upstream
\* charges CreditsPerRequest for it, and every such response so far left a
\* row in api_usage
CreditsPerRequest == 3
CreditHeaders(usage) ==
    LET used == CreditsPerRequest * (Len(usage) + 1)
    IN  Some([used |-> odds_api_monthly_credits - InitialCredits + used,
              remaining |-> InitialCredits - used])

\* what GET /sports may answer: the configured sports that are active
ActiveSets == {{"basketball_nba", "americanfootball_nfl"}, {"basketball_nba"}}

\* how one odds request ends: a 2xx response, raise_for_status raising
\* httpx.HTTPStatusError, the request raising a transport error, or a 2xx
\* response whose body does not validate
FetchOutcomes == {"ok", "http_status_error", "network_error", "bad_payload"}

\* create_scheduler adds poll_odds without max_instances, so the job runs
\* with the scheduler's default: one instance at a time
max_instances_unlimited == 1 + 1
max_instances == 1

\* poll_cycle returns: the executor releases the job's instance
job_returns(p) == [p EXCEPT !.pc = "idle", !.instances = p.instances - 1]

\* the scheduler fires poll_odds: Poller.poll_cycle up to the call of
\* fetch_all_sports_odds
PollTick ==
    LET clock == IF now > poller.next_run_time THEN now ELSE poller.next_run_time
        next == poller.next_run_time + poll_interval_minutes
        budget == should_poll(api_usage, low_budget_warned)
    IN  /\ poller.instances < max_instances
        /\ poller.next_run_time < StartTime + MaxTicks * poll_interval_minutes
        /\ now' = clock
        /\ last_run' = NoRun
        /\ send_log' = NoSend
        /\ IF in_quiet(hour_of(clock))
           THEN /\ poller' = [IdlePoller(poller.cycle_count, next) EXCEPT
                                 !.rows_before = Len(odds_snapshots),
                                 !.instances = poller.instances]
                /\ UNCHANGED <<low_budget_warned, budget_warnings>>
           ELSE /\ low_budget_warned' = budget.warned
                /\ budget_warnings' =
                       IF budget.warning_sent
                       THEN send_budget_warning(budget_warnings,
                                                get_credits_remaining(api_usage)[1])
                       ELSE budget_warnings
                /\ poller' = [IdlePoller(poller.cycle_count + 1, next) EXCEPT
                                 !.pc = IF budget.ok THEN "get_active_sports" ELSE "idle",
                                 !.rows_before = Len(odds_snapshots),
                                 !.instances = IF budget.ok THEN poller.instances + 1
                                               ELSE poller.instances]
        /\ UNCHANGED <<odds_snapshots, sent_alerts, insert_ret, api_usage, signal_results,
                       settings>>

\* OddsClient.fetch_all_sports_odds: get_active_sports and the cycle's fetched_at
GetActiveSports ==
    /\ poller.pc = "get_active_sports"
    /\ now' = now + RequestMinutes
    /\ \/ poller' = job_returns(poller)
       \/ \E active \in ActiveSets :
             poller' = [poller EXCEPT !.pc = "fetch_odds", !.active = active,
                                      !.fetched_at = Some(now'), !.todo = sports]
    /\ UNCHANGED <<odds_snapshots, sent_alerts, insert_ret, last_run, send_log,
                   api_usage, signal_results, low_budget_warned, settings, budget_warnings>>

\* one round of the loop over settings.sports: OddsClient.fetch_odds
FetchOdds ==
    LET sport_key == Head(poller.todo)
        rest == Tail(poller.todo)
        after == IF rest = << >> THEN "pipeline" ELSE "fetch_odds"
        endpoint == <<"/sports/", sport_key, "/odds">>
    IN  /\ poller.pc = "fetch_odds"
        /\ IF sport_key \notin poller.active
           THEN /\ poller' = [poller EXCEPT !.pc = after, !.todo = rest]
                /\ UNCHANGED <<now, odds_snapshots, insert_ret, api_usage>>
           ELSE \E outcome \in FetchOutcomes :
                  /\ now' = now + RequestMinutes
                  /\ CASE outcome = "http_status_error" ->
                            /\ poller' = [poller EXCEPT !.pc = after, !.todo = rest]
                            /\ UNCHANGED <<odds_snapshots, insert_ret, api_usage>>
                       [] outcome = "network_error" ->
                            /\ poller' = job_returns([poller EXCEPT !.todo = rest])
                            /\ UNCHANGED <<odds_snapshots, insert_ret, api_usage>>
                       [] outcome = "bad_payload" ->
                            /\ api_usage' = track_credits(api_usage, now', endpoint,
                                                          CreditHeaders(api_usage))
                            /\ poller' = job_returns([poller EXCEPT !.todo = rest])
                            /\ UNCHANGED <<odds_snapshots, insert_ret>>
                       [] outcome = "ok" ->
                            \E events \in UpstreamOdds(sport_key) :
                               LET rows == FlattenRows(events, poller.fetched_at, now')
                                   ret == insert_snapshots(odds_snapshots, rows)
                               IN  /\ api_usage' =
                                          track_credits(api_usage, now', endpoint,
                                                        CreditHeaders(api_usage))
                                   /\ odds_snapshots' = ret.table
                                   /\ insert_ret' = [offered |-> Len(rows),
                                                     inserted |-> ret.inserted]
                                   /\ poller' = [poller EXCEPT
                                          !.pc = after, !.todo = rest,
                                          !.results = (sport_key :>
                                              filter_events_for_cycle(
                                                  events, poller.cycle_count, now'))
                                              @@ poller.results]
        /\ UNCHANGED <<sent_alerts, last_run, send_log, signal_results, low_budget_warned,
                       settings, budget_warnings>>

\* Poller.poll_cycle: "if not results" and pipeline.run(fetched_at)
RunPipeline ==
    /\ poller.pc = "pipeline"
    /\ IF DOMAIN poller.results = {}
       THEN /\ poller' = job_returns(poller)
            /\ UNCHANGED last_run
       ELSE /\ PipelineRun(poller.fetched_at[1], {})
            /\ poller' = IF last_run'.result = << >> THEN job_returns(poller)
                          ELSE [poller EXCEPT !.pc = "send_signals"]
    /\ UNCHANGED <<now, odds_snapshots, sent_alerts, insert_ret, send_log,
                   api_usage, signal_results, low_budget_warned, settings, budget_warnings>>

\* Poller.poll_cycle: alerter.send_signals, then perf_tracker.record_signals
SendAndRecord ==
    /\ poller.pc = "send_signals"
    /\ \E outcomes \in [1..Len(last_run.result) -> SinkOutcomes] : SendSignals(outcomes)
    /\ signal_results' = record_signals(signal_results, last_run.result, poller.fetched_at[1])
    /\ poller' = job_returns(poller)
    /\ UNCHANGED <<now, odds_snapshots, insert_ret, last_run, api_usage, low_budget_warned,
                   settings, budget_warnings>>

\* poll_odds is due while an execution of poll_cycle is still in flight (a
\* request of the cycle has not answered by then): the scheduler skips this
\* run time and computes the next one
DropTick ==
    /\ poller.pc /= "idle"
    /\ poller.instances >= max_instances
    /\ poller.next_run_time < StartTime + MaxTicks * poll_interval_minutes
    /\ now' = IF now > poller.next_run_time THEN now ELSE poller.next_run_time
    /\ poller' = [poller EXCEPT !.next_run_time = poller.next_run_time + poll_interval_minutes]
    /\ UNCHANGED <<odds_snapshots, sent_alerts, insert_ret, last_run, send_log,
                   api_usage, signal_results, low_budget_warned, settings, budget_warnings>>

Next ==
    PollTick \/ DropTick \/ GetActiveSports \/ FetchOdds \/ RunPipeline \/ SendAndRecord

\* the deployments of the poller: the default Settings, and quiet hours over
\* the night, 23 to 5 UTC
PollerSettings ==
    {ConfiguredSettings,
     [ConfiguredSettings EXCEPT !.quiet_hours_start = 23, !.quiet_hours_end = 5]}

InitPoller == \E conf \in PollerSettings : Installed(conf)

Spec == InitPoller /\ [][Next]_vars


\* ------------------------------------------------------ properties of the poll cycle
\* the rows the running (or last) poll cycle has written
WrittenThisCycle ==
    SubSeq(odds_snapshots, poller.rows_before + 1, Len(odds_snapshots))

\* C10: all snapshot rows written during one poll cycle, whatever their sport
\* and event, carry one fetched_at, the value fetch_all_sports_odds chose, and
\* the pipeline of that cycle is run with that value.
C10_CycleSharesFetchedAt ==
    /\ \A i \in 1..Len(WrittenThisCycle) :
          /\ poller.fetched_at /= None
          /\ WrittenThisCycle[i].fetched_at = poller.fetched_at[1]
    /\ last_run /= NoRun =>
          /\ poller.fetched_at /= None
          /\ last_run.fetched_at = poller.fetched_at[1]

\* a cycle that wrote rows of both sports, the second request ending after the
\* timestamp was chosen, and then ran the pipeline
C10_Witness ==
    /\ last_run /= NoRun
    /\ \E i, j \in 1..Len(WrittenThisCycle) :
          /\ WrittenThisCycle[i].sport_key = "basketball_nba"
          /\ WrittenThisCycle[j].sport_key = "americanfootball_nfl"
    /\ now > last_run.fetched_at + RequestMinutes
    /\ poller.rows_before > 0


\* the ids of the events fetch_all_sports_odds returned to poll_cycle: those
\* that passed filter_events_for_cycle for the cycle's index
PassedFilter ==
    UNION {{poller.results[k][i].id : i \in 1..Len(poller.results[k])} :
              k \in DOMAIN poller.results}

\* C11: in a poll cycle with index c the pipeline runs the detectors only for
\* the events that passed the smart sub-sampler for c: every signal of the
\* cycle's run belongs to an event the filter let through, although the rows
\* of a dropped event were written at the cycle's fetched_at.
C11_DroppedEventYieldsNoSignal ==
    last_run /= NoRun =>
        \A i \in 1..Len(last_run.result) : last_run.result[i].event_id \in PassedFilter



\* ------------------------------------------------------ the smart sub-sampler
\* minutes from the call to the event's start: started already, starting now,
\* and around the two limits of classify_event
CommenceOffsets == {-30, 0, 60, 119, 120, 121, 400, 719, 720, 721, 1500}

\* events as filter_events_for_cycle sees them at the moment clock; None is a
\* commence_time that datetime.fromisoformat rejects
SmartEvents(clock) ==
    {Event("e1", "basketball_nba", commence_time, << >>) :
        commence_time \in {None} \cup {Some(clock + d) : d \in CommenceOffsets}}

\* a call of should_poll_event
ShouldPollEvent ==
    /\ \E event \in SmartEvents(now), cycle_count \in 0..MaxCycle :
          last_run' = [event |-> event, cycle_count |-> cycle_count, clock |-> now,
                       answer |-> should_poll_event(event, cycle_count, now)]
    /\ UNCHANGED <<now, odds_snapshots, sent_alerts, insert_ret, send_log, poller_vars>>

NextSmart == ShouldPollEvent

SpecSmart == Init /\ [][NextSmart]_vars

\* C12: should_poll_event(event, c) is true on every cycle for an event that
\* starts within 2 hours or whose commence_time cannot be parsed, true exactly
\* on the cycles with c mod 2 = 0 for an event that starts in more than 2 and
\* at most 12 hours, and true exactly on the cycles with c mod 4 = 0 for an
\* event that starts in more than 12 hours.
C12_ShouldPollEventByPriority ==
    last_run /= NoRun =>
        LET commence_time == last_run.event.commence_time
            c == last_run.cycle_count
            minutes_until == commence_time[1] - last_run.clock
        IN  /\ commence_time = None => last_run.answer
            /\ commence_time /= None =>
                  /\ (0 <= minutes_until /\ minutes_until <= 2 * MinutesPerHour) =>
                        last_run.answer
                  /\ (2 * MinutesPerHour < minutes_until
                         /\ minutes_until <= 12 * MinutesPerHour) =>
                        (last_run.answer <=> c % 2 = 0)
                  /\ 12 * MinutesPerHour < minutes_until =>
                        (last_run.answer <=> c % 4 = 0)

\* an event exactly 12 hours ahead is polled on cycle 6, which an event beyond
\* 12 hours is not
C12_Witness ==
    /\ last_run /= NoRun
    /\ last_run.event.commence_time = Some(last_run.clock + 12 * MinutesPerHour)
    /\ last_run.cycle_count = 6
    /\ last_run.answer



\* ------------------------------------------------------------ the budget gate
\* values of odds_api_monthly_credits a deployment may be started with
MonthlyCredits == {20, 40, 500}

\* what the upstream may report as x-requests-remaining: around 20% of each
\* plan and around CREDITS_PER_POLL
RemainingCredits == {0, 4, 5, 8, 9, 10, 100, 101}

InitBudget ==
    \E monthly \in MonthlyCredits :
        Installed([ConfiguredSettings EXCEPT !.odds_api_monthly_credits = monthly])

\* a request of the process tracks its credits: Repository.record_api_usage
\* with the headers of the response
RecordApiUsage ==
    /\ Len(api_usage) < MaxUsage
    /\ \E remaining \in RemainingCredits :
          api_usage' = record_api_usage(api_usage, now, <<"/sports/", "basketball_nba", "/odds">>,
                                        CreditsPerRequest, remaining)
    /\ UNCHANGED <<now, odds_snapshots, sent_alerts, insert_ret, last_run, send_log,
                   signal_results, low_budget_warned, poller, settings, budget_warnings>>

\* a call of BudgetTracker.should_poll
ShouldPoll ==
    /\ \E budget \in {should_poll(api_usage, low_budget_warned)} :
          /\ low_budget_warned' = budget.warned
          /\ budget_warnings' =
                 IF budget.warning_sent
                 THEN send_budget_warning(budget_warnings, get_credits_remaining(api_usage)[1])
                 ELSE budget_warnings
          /\ last_run' = [remaining |-> get_credits_remaining(api_usage),
                          answer |-> budget.ok]
    /\ UNCHANGED <<now, odds_snapshots, sent_alerts, insert_ret, send_log,
                   api_usage, signal_results, poller, settings>>

NextBudget == RecordApiUsage \/ ShouldPoll

SpecBudget == InitBudget /\ [][NextBudget]_vars

\* C13 (as stated): should_poll returns true exactly when the api_usage ledger
\* is empty or the credits_remaining of its most recent row is strictly
\* greater than max(20% of odds_api_monthly_credits, CREDITS_PER_POLL).
C13_TrueExactlyAboveTheLargerLimit ==
    last_run /= NoRun =>
        (last_run.answer <=>
            \/ last_run.remaining = None
            \/ /\ last_run.remaining[1] * 100 > settings.odds_api_monthly_credits * 20
               /\ last_run.remaining[1] > CREDITS_PER_POLL)

\* C13 (amended): should_poll returns true exactly when the ledger is empty or
\* the credits_remaining of its most recent row is strictly greater than 20%
\* of odds_api_monthly_credits and at least CREDITS_PER_POLL.
C13_TrueExactlyAbove20PercentAndEnoughForAPoll ==
    last_run /= NoRun =>
        (last_run.answer <=>
            \/ last_run.remaining = None
            \/ /\ last_run.remaining[1] * 100 > settings.odds_api_monthly_credits * 20
               /\ last_run.remaining[1] >= CREDITS_PER_POLL)

\* exactly CREDITS_PER_POLL credits are left, more than 20% of the plan, and
\* should_poll allowed the poll
C13_Witness ==
    /\ last_run /= NoRun
    /\ last_run.remaining = Some(CREDITS_PER_POLL)
    /\ last_run.remaining[1] * 100 > settings.odds_api_monthly_credits * 20
    /\ last_run.answer


\* C14: the first time should_poll denies polling in a process lifetime the
\* low-budget notification is sent, whichever condition caused the denial, and
\* over the whole lifetime it is sent at most once: after any denial exactly
\* one notification has been sent, and never are there two.
C14_FirstDenialNotifiesOnce ==
    /\ Len(budget_warnings) <= 1
    /\ (last_run /= NoRun /\ ~last_run.answer) => Len(budget_warnings) = 1



\* ------------------------------------------------------------ the quiet hours
Hours == 0..23

\* a process started with any quiet_hours_start and quiet_hours_end
InitQuiet ==
    \E start \in Hours, end \in Hours :
        Installed([ConfiguredSettings EXCEPT !.quiet_hours_start = start,
                                             !.quiet_hours_end = end])

\* the quiet-hours check at the head of Poller.poll_cycle, made at some hour
QuietCheck ==
    /\ \E hour \in Hours :
          last_run' = [hour |-> hour, in_quiet |-> in_quiet(hour)]
    /\ UNCHANGED <<now, odds_snapshots, sent_alerts, insert_ret, send_log, poller_vars>>

NextQuiet == QuietCheck

SpecQuiet == InitQuiet /\ [][NextQuiet]_vars

\* C15 (as stated): for every quiet_hours_start s, quiet_hours_end e and UTC
\* hour h in 0..23, poll_cycle is skipped for quiet hours exactly when h lies
\* in the half-open window [s, e), taken around midnight when s > e; when
\* s = e the window is empty and no tick is skipped.
C15_SkippedExactlyInsideTheWindow ==
    last_run /= NoRun =>
        LET s == settings.quiet_hours_start
            e == settings.quiet_hours_end
            h == last_run.hour
        IN  last_run.in_quiet <=>
               IF s < e THEN s <= h /\ h < e
               ELSE IF s > e THEN h >= s \/ h < e
               ELSE FALSE


\* C16: every firing of the poll job increments cycle_index by exactly one,
\* before the budget gate and the quiet-hours check, so a tick that is then
\* skipped for budget or for quiet hours still advances the counter.
C16_EveryFiringIncrementsCycleIndex ==
    [][PollTick => poller'.cycle_count = poller.cycle_count + 1]_vars


\* C17: two executions of poll_cycle never overlap: at most one is in flight,
\* an execution starts only when none is running and only at the job's
\* scheduled run time, so a tick that fell due during a running cycle was
\* dropped, neither run beside it nor run late after it.
C17_PollCyclesNeverOverlap ==
    /\ [](poller.instances <= 1)
    /\ [][PollTick => /\ poller.pc = "idle"
                      /\ poller.instances = 0
                      /\ now' = poller.next_run_time]_vars

\* the second run time fell due while the first cycle was still fetching, and
\* the cycle goes on alone
C17_Witness ==
    /\ poller.pc = "fetch_odds"
    /\ poller.instances = 1
    /\ poller.cycle_count = 1
    /\ poller.next_run_time = StartTime + 2 * poll_interval_minutes
    /\ now >= StartTime + poll_interval_minutes


\* the configured active sports the cycle has not requested
Unfetched == {poller.todo[i] : i \in 1..Len(poller.todo)} \cap poller.active

\* C18: a transient upstream failure while fetching one configured sport (HTTP
\* error status, network or timeout error, unparsable response) does not abort
\* the cycle: once fetch_all_sports_odds is over, every configured active
\* sport has been requested in this cycle.
C18_FailureOfOneSportKeepsTheCycle ==
    (poller.fetched_at /= None /\ poller.pc /= "fetch_odds") => Unfetched = {}



\* ------------------------------------------------------------------ the grader
\* one entry of a scores response: scores is None when the entry carries no
\* scores, else <<the list of [name, score]>>
Game(id, home_team, away_team, completed, scores) ==
    [id |-> id, home_team |-> home_team, away_team |-> away_team,
     completed |-> completed, scores |-> scores]

\* one entry of scores: score is None when the entry's score is null
Score(name, score) == [name |-> name, score |-> Some(score)]

NullScore(name) == [name |-> name, score |-> None]

\* {s["name"]: int(s["score"]) for s in game["scores"]}.get(team, 0)
score_of(game, team) ==
    LET hits == SelectSeq(game.scores[1], LAMBDA s : s.name = team)
    IN  IF hits = << >> THEN 0 ELSE hits[Len(hits)].score[1]

\* ScoreGrader._grade_h2h
grade_h2h(outcome_name, game) ==
    LET home_score == score_of(game, game.home_team)
        away_score == score_of(game, game.away_team)
        winner == IF home_score > away_score THEN game.home_team ELSE game.away_team
    IN  IF home_score = away_score THEN "push"
        ELSE IF outcome_name = winner THEN "won" ELSE "lost"

\* _grade_spread with the margin always taken from the home side
grade_spread_home_margin(outcome_name, game, point) ==
    LET home_score == score_of(game, game.home_team)
        away_score == score_of(game, game.away_team)
        adjusted == 2 * (home_score - away_score) + point
    IN  IF outcome_name /= game.home_team /\ outcome_name /= game.away_team THEN "push"
        ELSE IF adjusted > 0 THEN "won"
        ELSE IF adjusted < 0 THEN "lost"
        ELSE "push"

\* ScoreGrader._grade_spread; point is in half points, so the margin is doubled
grade_spread(outcome_name, game, point) ==
    LET home_score == score_of(game, game.home_team)
        away_score == score_of(game, game.away_team)
        margin == IF outcome_name = game.home_team THEN home_score - away_score
                  ELSE away_score - home_score
        adjusted == 2 * margin + point
    IN  IF outcome_name /= game.home_team /\ outcome_name /= game.away_team THEN "push"
        ELSE IF adjusted > 0 THEN "won"
        ELSE IF adjusted < 0 THEN "lost"
        ELSE "push"

\* ScoreGrader._grade_total; point is in half points, so the sum is doubled
grade_total(outcome_name, game, point) ==
    LET combined == 2 * SeqSum([i \in 1..Len(game.scores[1]) |-> game.scores[1][i].score[1]])
    IN  IF combined > point THEN (IF outcome_name = "Over" THEN "won" ELSE "lost")
        ELSE IF combined < point THEN (IF outcome_name = "Under" THEN "won" ELSE "lost")
        ELSE "push"

\* get_reference_line without "fetched_at <= ?" in its two queries
get_reference_line_unbounded(table, event_id, market_key, outcome_name, signal_at) ==
    LET qualifying == SelectSeq(table, LAMBDA r :
                          /\ r.event_id = event_id
                          /\ r.market_key = market_key
                          /\ r.outcome_name = outcome_name
                          /\ r.point /= None)
        pinnacle == SelectSeq(qualifying, LAMBDA r : r.bookmaker_key = PINNACLE_KEY)
        Latest(rows) ==
            rows[CHOOSE i \in 1..Len(rows) :
                     \A j \in 1..Len(rows) :
                         TextGE(isoformat(rows[i].fetched_at), isoformat(rows[j].fetched_at))]
    IN  IF pinnacle /= << >> THEN Latest(pinnacle).point
        ELSE IF qualifying /= << >> THEN Latest(qualifying).point
        ELSE None

\* Repository.get_reference_line: the point of the latest row at or before
\* signal_at, Pinnacle's if it has one, else any bookmaker's (None if no row
\* qualifies)
get_reference_line(table, event_id, market_key, outcome_name, signal_at) ==
    LET qualifying == SelectSeq(table, LAMBDA r :
                          /\ r.event_id = event_id
                          /\ r.market_key = market_key
                          /\ r.outcome_name = outcome_name
                          /\ TextGE(isoformat(signal_at), isoformat(r.fetched_at))
                          /\ r.point /= None)
        pinnacle == SelectSeq(qualifying, LAMBDA r : r.bookmaker_key = PINNACLE_KEY)
        Latest(rows) ==
            rows[CHOOSE i \in 1..Len(rows) :
                     \A j \in 1..Len(rows) :
                         TextGE(isoformat(rows[i].fetched_at), isoformat(rows[j].fetched_at))]
    IN  IF pinnacle /= << >> THEN Latest(pinnacle).point
        ELSE IF qualifying /= << >> THEN Latest(qualifying).point
        ELSE None

\* get_unresolved_signals without its WHERE clause: every recorded signal
get_all_signals(results) == results

\* Repository.get_unresolved_signals
get_unresolved_signals(results) == SelectSeq(results, LAMBDA r : r.result = None)

\* resolve_signal with the WHERE clause on the event alone
resolve_signal_by_event(results, event_id, signal_type, market_key, outcome_name, signal_at, result, clock) ==
    [i \in 1..Len(results) |->
        IF results[i].event_id = event_id
        THEN [results[i] EXCEPT !.result = Some(result),
                                !.resolved_at = Some(isoformat(clock))]
        ELSE results[i]]

\* Repository.resolve_signal
resolve_signal(results, event_id, signal_type, market_key, outcome_name, signal_at, result, clock) ==
    [i \in 1..Len(results) |->
        IF ResultKey(results[i]) = <<event_id, signal_type, market_key, outcome_name, signal_at>>
        THEN [results[i] EXCEPT !.result = Some(result),
                                !.resolved_at = Some(isoformat(clock))]
        ELSE results[i]]


\* ScoreGrader.resolve_all, "Collect sport keys": the sport of the first
\* snapshot row of every unresolved signal's event, else settings.sports
grader_sport_keys(table, unresolved) ==
    LET found == {table[j].sport_key : j \in
                     {j \in 1..Len(table) :
                         /\ \E i \in 1..Len(unresolved) : unresolved[i].event_id = table[j].event_id
                         /\ \A k \in 1..(j - 1) : table[k].event_id /= table[j].event_id}}
    IN  IF found = {} THEN Range(sports) ELSE found

\* scores_by_event[game["id"]] = game, over the games of the answered requests
index_by_event(games) ==
    [id \in {games[i].id : i \in 1..Len(games)} |->
        games[CHOOSE i \in 1..Len(games) :
                  /\ games[i].id = id
                  /\ \A j \in (i + 1)..Len(games) : games[j].id /= id]]

\* what the loop of resolve_all logs when grading a signal raises
GraderError == "grader_error"

\* int(s["score"]) raises on a score that is null: the three grading functions
\* convert every score of the game before anything else
int_raises(game) == \E i \in 1..Len(game.scores[1]) : game.scores[1][i].score = None

\* ScoreGrader.resolve_all, the body of the loop up to resolve_signal: None
\* when the signal is skipped, Some(GraderError) when grading raised, else the
\* result
grade_signal(table, sig, scores_by_event) ==
    IF sig.event_id \notin DOMAIN scores_by_event THEN None
    ELSE IF scores_by_event[sig.event_id].scores = None THEN None
    ELSE IF scores_by_event[sig.event_id].scores[1] = << >> THEN None
    ELSE IF sig.market_key = "h2h"
         THEN IF int_raises(scores_by_event[sig.event_id]) THEN Some(GraderError)
              ELSE Some(grade_h2h(sig.outcome_name, scores_by_event[sig.event_id]))
    ELSE IF sig.market_key \in {"spreads", "totals"}
         THEN LET point == get_reference_line(table, sig.event_id, sig.market_key,
                                              sig.outcome_name, sig.signal_at)
              IN  IF point = None THEN None
                  ELSE IF int_raises(scores_by_event[sig.event_id]) THEN Some(GraderError)
                  ELSE IF sig.market_key = "spreads"
                  THEN Some(grade_spread(sig.outcome_name, scores_by_event[sig.event_id],
                                         point[1]))
                  ELSE Some(grade_total(sig.outcome_name, scores_by_event[sig.event_id],
                                        point[1]))
    ELSE None

\* the loop of resolve_all with an except clause that logs and counts nothing
resolve_each_uncounted(table, results, unresolved, scores_by_event, clock) ==
    LET RECURSIVE go(_, _)
        go(i, acc) ==
            IF i > Len(unresolved) THEN acc
            ELSE LET sig == unresolved[i]
                     result == grade_signal(table, sig, scores_by_event)
                 IN  IF result = None
                     THEN go(i + 1, [acc EXCEPT !.skipped = Append(@, ResultKey(sig))])
                     ELSE IF result = Some(GraderError)
                     THEN go(i + 1, acc)
                     ELSE go(i + 1,
                             [acc EXCEPT
                                 !.results = resolve_signal(@, sig.event_id, sig.signal_type,
                                                            sig.market_key, sig.outcome_name,
                                                            sig.signal_at, result[1], clock),
                                 !.resolved = Append(@, ResultKey(sig))])
    IN  go(1, [results |-> results, resolved |-> << >>, skipped |-> << >>,
               errors |-> << >>])

\* ScoreGrader.resolve_all, the loop over the unresolved signals: the table
\* afterwards, the keys of the signals resolved, of those skipped and of those
\* whose grading raised
resolve_each(table, results, unresolved, scores_by_event, clock) ==
    LET RECURSIVE go(_, _)
        go(i, acc) ==
            IF i > Len(unresolved) THEN acc
            ELSE LET sig == unresolved[i]
                     result == grade_signal(table, sig, scores_by_event)
                 IN  IF result = None
                     THEN go(i + 1, [acc EXCEPT !.skipped = Append(@, ResultKey(sig))])
                     ELSE IF result = Some(GraderError)
                     THEN go(i + 1, [acc EXCEPT !.errors = Append(@, ResultKey(sig))])
                     ELSE go(i + 1,
                             [acc EXCEPT
                                 !.results = resolve_signal(@, sig.event_id, sig.signal_type,
                                                            sig.market_key, sig.outcome_name,
                                                            sig.signal_at, result[1], clock),
                                 !.resolved = Append(@, ResultKey(sig))])
    IN  go(1, [results |-> results, resolved |-> << >>, skipped |-> << >>,
               errors |-> << >>])


\* the signals the pipeline may have recorded at StartTime: a moneyline and a
\* totals signal on the NBA game, a spread signal on the NFL game
GraderSignals ==
    {<<"e1", "pinnacle_divergence", "h2h", "Lakers">>,
     <<"e1", "rapid_change", "totals", "Over">>,
     <<"e3", "pinnacle_divergence", "spreads", "Chiefs">>}

\* the rows of one sport a poll cycle may store: the NBA game's moneyline and
\* total (215.0), the Chiefs' spread (Pinnacle -7.0, DraftKings -5.0)
GraderRows(sport_key, fetched_at) ==
    IF sport_key = "basketball_nba"
    THEN <<Snapshot("e1", sport_key, "draftkings", "h2h", "Lakers", 160, None, fetched_at),
           Snapshot("e1", sport_key, "draftkings", "totals", "Over", -110, Some(430), fetched_at)>>
    ELSE <<Snapshot("e3", sport_key, PINNACLE_KEY, "spreads", "Chiefs", -110, Some(-14), fetched_at),
           Snapshot("e3", sport_key, "draftkings", "spreads", "Chiefs", -110, Some(-10), fetched_at)>>

\* what GET /sports/{sport_key}/scores may list for the sport's game: the
\* final score, a game in play, a game that has not started, a game with a
\* score that is null; or nothing
UpstreamGames(sport_key) ==
    IF sport_key = "basketball_nba"
    THEN {<< >>,
          <<Game("e1", "Lakers", "Celtics", TRUE, Some(<<Score("Lakers", 110), Score("Celtics", 105)>>))>>,
          <<Game("e1", "Lakers", "Celtics", FALSE, Some(<<Score("Lakers", 50), Score("Celtics", 60)>>))>>,
          <<Game("e1", "Lakers", "Celtics", FALSE, None)>>,
          <<Game("e1", "Lakers", "Celtics", FALSE, Some(<<Score("Lakers", 2), NullScore("Celtics")>>))>>}
    ELSE {<< >>,
          <<Game("e3", "Chiefs", "Bills", TRUE, Some(<<Score("Chiefs", 24), Score("Bills", 17)>>))>>,
          <<Game("e3", "Chiefs", "Bills", FALSE, Some(<<Score("Chiefs", 3), Score("Bills", 7)>>))>>,
          <<Game("e3", "Chiefs", "Bills", FALSE, None)>>}

\* OddsClient.fetch_scores(sport_key, days_from=3): it raises, or returns the
\* entries of the upstream's answer
fetch_scores(sport_key) ==
    {[raised |-> TRUE, games |-> << >>]}
        \cup {[raised |-> FALSE, games |-> games] : games \in UpstreamGames(sport_key)}

\* a poll cycle, later than the ones before it, stores the rows of the sports
\* it fetched (Repository.insert_snapshots)
GraderFetch ==
    /\ \E fetched_at \in StoreTimes : \E fetched \in SUBSET Range(sports) :
          LET rows == FlatMap(LAMBDA k : GraderRows(k, fetched_at),
                              SelectSeq(sports, LAMBDA k : k \in fetched))
              ret == insert_snapshots(odds_snapshots, rows)
          IN  /\ fetched /= {}
              /\ \A i \in 1..Len(odds_snapshots) : odds_snapshots[i].fetched_at < fetched_at
              /\ odds_snapshots' = ret.table
              /\ insert_ret' = [offered |-> Len(rows), inserted |-> ret.inserted]
    /\ UNCHANGED <<now, sent_alerts, last_run, send_log, poller_vars>>

\* a poll cycle records a signal (Repository.record_signal_result)
RecordSignalResult ==
    /\ \E s \in GraderSignals :
          /\ signal_results' = record_signal_result(signal_results, s[1], s[2], s[3], s[4],
                                                    <<"up">>, 80, StartTime)
          /\ signal_results' /= signal_results
    /\ UNCHANGED <<now, odds_snapshots, sent_alerts, insert_ret, last_run, send_log,
                   api_usage, low_budget_warned, poller, settings, budget_warnings>>

\* the grader job: ScoreGrader.resolve_all
ResolveAll ==
    /\ \E unresolved \in {get_unresolved_signals(signal_results)} :
          IF unresolved = << >>
          THEN /\ last_run' = [unresolved |-> 0, scores_by_event |-> << >>,
                               resolved |-> << >>, skipped |-> << >>,
                               errors |-> << >>]
               /\ UNCHANGED signal_results
          ELSE \E answers \in [grader_sport_keys(odds_snapshots, unresolved) ->
                                  UNION {fetch_scores(k) : k \in Range(sports)}] :
                 /\ \A k \in DOMAIN answers : answers[k] \in fetch_scores(k)
                 /\ \E scores_by_event \in
                        {index_by_event(FlatMap(LAMBDA k : answers[k].games,
                                                SelectSeq(sports, LAMBDA k : k \in DOMAIN answers)))} :
                    \E done \in {resolve_each(odds_snapshots, signal_results, unresolved,
                                              scores_by_event, now)} :
                       /\ signal_results' = done.results
                       /\ last_run' = [unresolved |-> Len(unresolved),
                                       scores_by_event |-> scores_by_event,
                                       resolved |-> done.resolved,
                                       skipped |-> done.skipped,
                                       errors |-> done.errors]
    /\ UNCHANGED <<now, odds_snapshots, sent_alerts, insert_ret, send_log,
                   api_usage, low_budget_warned, poller, settings, budget_warnings>>

NextGrader == GraderFetch \/ RecordSignalResult \/ ResolveAll

SpecGrader == Init /\ [][NextGrader]_vars


\* C19: a signal that resolve_all skips (its game is missing from the scores
\* response or has no scores, or its spreads/totals reference line is null)
\* keeps result = null and resolved_at unset, and get_unresolved_signals
\* returns it again to the next grader run.
C19_SkippedSignalsStayUnresolved ==
    last_run /= NoRun =>
        \A n \in 1..Len(last_run.skipped) :
            /\ \E i \in 1..Len(signal_results) :
                  /\ ResultKey(signal_results[i]) = last_run.skipped[n]
                  /\ signal_results[i].result = None
                  /\ signal_results[i].resolved_at = None
            /\ \E j \in 1..Len(get_unresolved_signals(signal_results)) :
                  ResultKey(get_unresolved_signals(signal_results)[j]) = last_run.skipped[n]

\* one run resolved the moneyline signal of the NBA game and skipped three
\* ways: the totals signal of the same game for its missing reference line,
\* and the NFL signal for a game without scores or missing from the response
C19_Witness ==
    /\ last_run /= NoRun
    /\ \E n \in 1..Len(last_run.resolved) : last_run.resolved[n][3] = "h2h"
    /\ \E n \in 1..Len(last_run.skipped) :
          /\ last_run.skipped[n][3] = "totals"
          /\ last_run.skipped[n][1] \in DOMAIN last_run.scores_by_event
          /\ last_run.scores_by_event[last_run.skipped[n][1]].scores /= None
    /\ \E n \in 1..Len(last_run.skipped) :
          /\ last_run.skipped[n][3] = "spreads"
          /\ \/ last_run.skipped[n][1] \notin DOMAIN last_run.scores_by_event
             \/ last_run.scores_by_event[last_run.skipped[n][1]].scores = None

RESULTS == {"won", "lost", "push"}

\* C21: across grader runs and recorded signals, the result of a SignalResult
\* changes at most once, from null to won, lost or push; a row whose result is
\* set is never changed, reset or removed by a later grader run or by
\* recording signals.
C21_ResultIsSetAtMostOnce ==
    [][/\ Len(signal_results') >= Len(signal_results)
       /\ \A i \in 1..Len(signal_results) :
             /\ ResultKey(signal_results'[i]) = ResultKey(signal_results[i])
             /\ IF signal_results[i].result = None
                THEN \/ signal_results'[i] = signal_results[i]
                     \/ /\ signal_results'[i].result \in {Some(r) : r \in RESULTS}
                        /\ signal_results'[i].resolved_at /= None
                ELSE signal_results'[i] = signal_results[i]]_vars

\* the moneyline signal on the Lakers was graded lost by an earlier run, from
\* the score of the game in play; a later run, which resolved another signal,
\* was answered with the final score, a Lakers win, and the result still stands
C21_Witness ==
    /\ last_run /= NoRun
    /\ "e1" \in DOMAIN last_run.scores_by_event
    /\ last_run.scores_by_event["e1"].scores /= None
    /\ ~int_raises(last_run.scores_by_event["e1"])
    /\ grade_h2h("Lakers", last_run.scores_by_event["e1"]) = "won"
    /\ Len(last_run.resolved) > 0
    /\ \E i \in 1..Len(signal_results) :
          /\ signal_results[i].market_key = "h2h"
          /\ signal_results[i].result = Some("lost")
          /\ \A n \in 1..Len(last_run.resolved) :
                last_run.resolved[n] /= ResultKey(signal_results[i])


\* C22 as stated: in every run of resolve_all the number of signals graded
\* won, lost or push plus the number skipped equals the number of unresolved
\* signals read at the start of the run.
C22_ResolvedPlusSkippedIsInput ==
    (last_run /= NoRun /\ "unresolved" \in DOMAIN last_run) =>
        Len(last_run.resolved) + Len(last_run.skipped) = last_run.unresolved

\* C22 as amended: in every run of resolve_all the numbers of signals
\* resolved (graded won, lost or push), skipped and counted as errors add up
\* to the number of unresolved signals read at the start of the run, and no
\* signal is counted twice.
C22_ResolvedSkippedErrorsIsInput ==
    (last_run /= NoRun /\ "unresolved" \in DOMAIN last_run) =>
        /\ Len(last_run.resolved) + Len(last_run.skipped) + Len(last_run.errors)
              = last_run.unresolved
        /\ Cardinality(Range(last_run.resolved) \cup Range(last_run.skipped)
                           \cup Range(last_run.errors)) = last_run.unresolved
        /\ \A n \in 1..Len(last_run.resolved) :
              \E i \in 1..Len(signal_results) :
                  /\ ResultKey(signal_results[i]) = last_run.resolved[n]
                  /\ signal_results[i].result \in {Some(r) : r \in RESULTS}

\* one run over three unresolved signals resolved one, skipped one and
\* counted one as an error
C22_Witness ==
    /\ last_run /= NoRun
    /\ "unresolved" \in DOMAIN last_run
    /\ last_run.unresolved = 3
    /\ Len(last_run.resolved) = 1
    /\ Len(last_run.skipped) = 1
    /\ Len(last_run.errors) = 1


\* ------------------------------------------------------- the grading functions
\* the lines of the graded bets, in half points: spreads from below minus the
\* largest margin, totals up to above the largest combined score
GradePoints == (0 - 2 * MaxScore - 1)..(4 * MaxScore + 1)

\* a finished game of the Lakers (home) against the Celtics, the scores listed
\* in either order
FinalGames ==
    {Game("e1", "Lakers", "Celtics", TRUE,
          Some(IF home_first
               THEN <<Score("Lakers", home_score), Score("Celtics", away_score)>>
               ELSE <<Score("Celtics", away_score), Score("Lakers", home_score)>>)) :
        home_score \in 0..MaxScore, away_score \in 0..MaxScore, home_first \in BOOLEAN}

\* one call of _grade_h2h, _grade_spread or _grade_total, as resolve_all
\* dispatches on the market of the signal
Grade ==
    /\ last_run = NoRun
    /\ \E game \in FinalGames : \E market_key \in {"h2h", "spreads", "totals"} :
       \E point \in GradePoints :
       \E outcome_name \in (IF market_key = "totals" THEN {"Over", "Under"}
                            ELSE {game.home_team, game.away_team}) :
          last_run' = [game |-> game, market_key |-> market_key,
                       outcome_name |-> outcome_name, point |-> point,
                       result |-> IF market_key = "h2h" THEN grade_h2h(outcome_name, game)
                                  ELSE IF market_key = "spreads"
                                  THEN grade_spread(outcome_name, game, point)
                                  ELSE grade_total(outcome_name, game, point)]
    /\ UNCHANGED <<now, odds_snapshots, sent_alerts, insert_ret, send_log, poller_vars>>

NextGrade == Grade

SpecGrade == Init /\ [][NextGrade]_vars

\* the score a scores entry lists for the team
ListedScore(game, team) ==
    (CHOOSE s \in Range(game.scores[1]) : s.name = team).score[1]

\* C23: for a game with final scores, a moneyline is a push on equal scores
\* and otherwise won exactly when the named team scored more; a spread is won,
\* lost or push as team score - opponent score + point is above, below or
\* equal to 0; a total Over is won, lost or push as the combined score is
\* above, below or equal to point, and Under the mirror image. (point is in
\* half points, so scores are doubled next to it.)
C23_GradeByMarket ==
    last_run /= NoRun =>
        LET game == last_run.game
            named == last_run.outcome_name
            other == IF named = game.home_team THEN game.away_team ELSE game.home_team
            home == ListedScore(game, game.home_team)
            away == ListedScore(game, game.away_team)
            ByDifference(d) == IF d > 0 THEN "won" ELSE IF d < 0 THEN "lost" ELSE "push"
        IN  CASE last_run.market_key = "h2h" ->
                   last_run.result =
                       ByDifference(ListedScore(game, named) - ListedScore(game, other))
              [] last_run.market_key = "spreads" ->
                   last_run.result =
                       ByDifference(2 * (ListedScore(game, named) - ListedScore(game, other))
                                        + last_run.point)
              [] last_run.market_key = "totals" /\ named = "Over" ->
                   last_run.result = ByDifference(2 * (home + away) - last_run.point)
              [] last_run.market_key = "totals" /\ named = "Under" ->
                   last_run.result = ByDifference(last_run.point - 2 * (home + away))

\* the away side covered a spread of +1.5 after losing by one: a bet graded
\* won on a team that lost the game
C23_Witness ==
    /\ last_run /= NoRun
    /\ last_run.market_key = "spreads"
    /\ last_run.outcome_name = last_run.game.away_team
    /\ last_run.point = 3
    /\ ListedScore(last_run.game, last_run.game.home_team)
          = ListedScore(last_run.game, last_run.game.away_team) + 1
    /\ last_run.result = "won"


\* ---------------------------------------------------------- the reference line
\* the times of three poll cycles, the last one after midnight
ReferenceTimes ==
    {StartTime, StartTime + poll_interval_minutes, StartTime + 2 * poll_interval_minutes}

\* the rows a poll cycle may store for the NFL game: the spread of the Chiefs
\* at Pinnacle and at DraftKings, a different line in every row, the spread of
\* the Bills and the moneyline of the Chiefs at Pinnacle
ReferenceRows(fetched_at) ==
    LET n == (fetched_at - StartTime) \div poll_interval_minutes
    IN  <<Snapshot("e3", "americanfootball_nfl", PINNACLE_KEY, "spreads", "Chiefs", -110,
                   Some(n - 14), fetched_at),
          Snapshot("e3", "americanfootball_nfl", "draftkings", "spreads", "Chiefs", -110,
                   Some(n - 10), fetched_at),
          Snapshot("e3", "americanfootball_nfl", PINNACLE_KEY, "spreads", "Bills", -110,
                   Some(14 - n), fetched_at),
          Snapshot("e3", "americanfootball_nfl", PINNACLE_KEY, "h2h", "Chiefs", -250,
                   None, fetched_at)>>

\* a poll cycle, later than the ones before it, stores some of the rows
\* (Repository.insert_snapshots)
ReferenceStore ==
    /\ last_run = NoRun
    /\ \E fetched_at \in ReferenceTimes : \E quoted \in SUBSET (1..4) :
          LET rows == SelectSeq(ReferenceRows(fetched_at),
                                LAMBDA r : \E k \in quoted : r = ReferenceRows(fetched_at)[k])
              ret == insert_snapshots(odds_snapshots, rows)
          IN  /\ quoted /= {}
              /\ \A i \in 1..Len(odds_snapshots) : odds_snapshots[i].fetched_at < fetched_at
              /\ odds_snapshots' = ret.table
              /\ insert_ret' = [offered |-> Len(rows), inserted |-> ret.inserted]
    /\ UNCHANGED <<now, sent_alerts, last_run, send_log, poller_vars>>

\* a call of Repository.get_reference_line for the spread of the Chiefs
GetReferenceLine ==
    /\ last_run = NoRun
    /\ \E signal_at \in ReferenceTimes :
          last_run' = [event_id |-> "e3", market_key |-> "spreads",
                       outcome_name |-> "Chiefs", signal_at |-> signal_at,
                       point |-> get_reference_line(odds_snapshots, "e3", "spreads",
                                                    "Chiefs", signal_at)]
    /\ UNCHANGED <<now, odds_snapshots, sent_alerts, insert_ret, send_log, poller_vars>>

NextReference == ReferenceStore \/ GetReferenceLine

SpecReference == Init /\ [][NextReference]_vars

\* the rows of the call's triple fetched at or before signal_at
RowsUpTo(call) ==
    {r \in Range(odds_snapshots) :
        /\ r.event_id = call.event_id
        /\ r.market_key = call.market_key
        /\ r.outcome_name = call.outcome_name
        /\ r.fetched_at <= call.signal_at}

\* C24: get_reference_line returns the point of Pinnacle's latest row fetched
\* at or before signal_at for the triple when there is one, otherwise the
\* point of the latest such row of any book, otherwise null; the point is
\* never that of a row fetched after signal_at.
C24_ReferenceLineIsLatestAtOrBefore ==
    last_run /= NoRun =>
        LET rows == RowsUpTo(last_run)
            sharp == {r \in rows : r.bookmaker_key = PINNACLE_KEY}
            LatestOf(S) == {r \in S : \A q \in S : q.fetched_at <= r.fetched_at}
        IN  /\ IF sharp /= {} THEN last_run.point \in {r.point : r \in LatestOf(sharp)}
               ELSE IF rows /= {} THEN last_run.point \in {r.point : r \in LatestOf(rows)}
               ELSE last_run.point = None
            /\ \A r \in Range(odds_snapshots) :
                  (r.market_key = last_run.market_key /\ r.fetched_at > last_run.signal_at)
                      => last_run.point /= r.point

\* the answer is Pinnacle's line of the first cycle although DraftKings has a
\* later row at or before signal_at and Pinnacle a row after it
C24_Witness ==
    /\ last_run /= NoRun
    /\ last_run.signal_at = StartTime + poll_interval_minutes
    /\ last_run.point = Some(-14)
    /\ \E r \in RowsUpTo(last_run) :
          r.bookmaker_key = "draftkings" /\ r.fetched_at = last_run.signal_at
    /\ \E r \in Range(odds_snapshots) :
          /\ r.bookmaker_key = PINNACLE_KEY
          /\ r.outcome_name = "Chiefs"
          /\ r.market_key = "spreads"
          /\ r.fetched_at > last_run.signal_at


\* ------------------------------------------------------------ the steam move
\* the books quoting the NBA game: four of the US subset, the sharp book and
\* the exchange
SteamBooks == <<"draftkings", "fanduel", "betmgm", "caesars", PINNACLE_KEY, BETFAIR_KEY>>

\* what a book quotes in the second cycle: nothing, or its opening line moved
\* by so many steps (a step is ten cents of price on h2h, half a point on
\* spreads)
SteamSteps == {-1, 0, 1}

SteamRow(bm, market_key, step, fetched_at) ==
    IF market_key = "h2h"
    THEN Snapshot("e1", "basketball_nba", bm, market_key, "Lakers", -110 + 10 * step, None,
                  fetched_at)
    ELSE Snapshot("e1", "basketball_nba", bm, market_key, "Lakers", -110, Some(step - 6),
                  fetched_at)

\* the first poll cycle stores the opening line of every book, on the
\* moneyline or on the spread
SteamOpen ==
    /\ odds_snapshots = << >>
    /\ \E market_key \in {"h2h", "spreads"} :
          LET rows == [i \in 1..Len(SteamBooks) |->
                          SteamRow(SteamBooks[i], market_key, 0, StartTime)]
              ret == insert_snapshots(odds_snapshots, rows)
          IN  /\ odds_snapshots' = ret.table
              /\ insert_ret' = [offered |-> Len(rows), inserted |-> ret.inserted]
    /\ UNCHANGED <<now, sent_alerts, last_run, send_log, poller_vars>>

\* the second poll cycle stores what the books quote then
SteamMove ==
    /\ Len(odds_snapshots) = Len(SteamBooks)
    /\ \E quotes \in [Range(SteamBooks) -> {Some(step) : step \in SteamSteps} \cup {None}] :
          LET quoting == SelectSeq(SteamBooks, LAMBDA bm : quotes[bm] /= None)
              rows == [i \in 1..Len(quoting) |->
                          SteamRow(quoting[i], odds_snapshots[1].market_key,
                                   quotes[quoting[i]][1], StartTime + poll_interval_minutes)]
              ret == insert_snapshots(odds_snapshots, rows)
          IN  /\ rows /= << >>
              /\ odds_snapshots' = ret.table
              /\ insert_ret' = [offered |-> Len(rows), inserted |-> ret.inserted]
    /\ now' = StartTime + poll_interval_minutes
    /\ UNCHANGED <<sent_alerts, last_run, send_log, poller_vars>>

\* SteamMoveDetector.detect for the game at the time of the second cycle
SteamDetect ==
    /\ Len(odds_snapshots) > Len(SteamBooks)
    /\ last_run = NoRun
    /\ last_run' = [fetched_at |-> now,
                    signals |-> SteamMoveDetector(odds_snapshots, "e1", now)]
    /\ UNCHANGED <<now, odds_snapshots, sent_alerts, insert_ret, send_log, poller_vars>>

NextSteam == SteamOpen \/ SteamMove \/ SteamDetect

SpecSteam == Init /\ [][NextSteam]_vars

\* the line a row carries: the price on h2h, the point on the other markets
LineOf(r) == IF r.market_key = "h2h" THEN r.price ELSE r.point[1]

\* the books whose line of the second cycle is above (sign 1), below (-1) or
\* equal to (0) their opening line
BooksMoved(sign) ==
    {bm \in Range(SteamBooks) :
        \E first \in Range(odds_snapshots), last \in Range(odds_snapshots) :
            /\ first.bookmaker_key = bm /\ first.fetched_at = StartTime
            /\ last.bookmaker_key = bm /\ last.fetched_at > StartTime
            /\ \/ sign = 1 /\ LineOf(last) > LineOf(first)
               \/ sign = -1 /\ LineOf(last) < LineOf(first)
               \/ sign = 0 /\ LineOf(last) = LineOf(first)}

\* C25: for a (market, outcome) group of the window the detector emits a
\* signal exactly when the larger of the set of books with a positive and the
\* set with a negative first-to-last delta has at least steam_min_books
\* members; its direction names such a set and books_moved is its size;
\* otherwise the group yields no signal.
C25_SteamExactlyWhenEnoughBooksAlign ==
    last_run /= NoRun =>
        LET up == Cardinality(BooksMoved(1))
            down == Cardinality(BooksMoved(-1))
            larger == IF up >= down THEN up ELSE down
        IN  IF larger >= steam_min_books
            THEN /\ Len(last_run.signals) = 1
                 /\ last_run.signals[1].signal_type = "steam_move"
                 /\ last_run.signals[1].details.books_moved = larger
                 /\ \/ last_run.signals[1].details.direction = "up" /\ up = larger
                    \/ last_run.signals[1].details.direction = "down" /\ down = larger
            ELSE last_run.signals = << >>

\* three books moved down, which fires, while two others moved up
C25_Witness ==
    /\ last_run /= NoRun
    /\ Cardinality(BooksMoved(-1)) = 3
    /\ Cardinality(BooksMoved(1)) = 2
    /\ Len(last_run.signals) = 1
    /\ last_run.signals[1].details.direction = "down"
    /\ last_run.signals[1].market_key = "spreads"

\* C26: every book in the value_books of a Steam Move signal is a US-subset
\* book whose line did not move within the window; a book whose line moved in
\* either direction is never listed.
C26_ValueBooksDidNotMove ==
    last_run /= NoRun =>
        \A n \in 1..Len(last_run.signals) :
            \A v \in 1..Len(last_run.signals[n].details.value_books) :
                LET bm == last_run.signals[n].details.value_books[v].bookmaker
                IN  /\ bm \in US_BOOKS
                    /\ bm \notin BooksMoved(1) \cup BooksMoved(-1)


\* --------------------------------------------------------- mirror-side collapse
\* the signals the detectors may emit for the two sides of one market of the
\* NBA game, by type: the details carry what _pick_best_signal reads
PickSignals(signal_type, market_key) ==
    LET Sides == IF market_key = "totals" THEN {"Over", "Under"} ELSE {"Lakers", "Celtics"}
        Details ==
            CASE signal_type = "reverse_line" ->
                     {[pinnacle_delta |-> d, value_books |-> vb] :
                         d \in {-2, 2}, vb \in {<< >>, <<"draftkings">>}}
              [] signal_type = "steam_move" ->
                     {[direction |-> d, value_books |-> vb] :
                         d \in {"up", "down"}, vb \in {<< >>, <<"draftkings">>}}
              [] signal_type = "exchange_shift" ->
                     {[direction |-> d, value_books |-> vb] :
                         d \in {"shortened", "drifted"}, vb \in {<< >>, <<"draftkings">>}}
              [] signal_type = "rapid_change" ->
                     {[delta |-> d, value_books |-> << >>] : d \in {2, 3, 4}}
              [] OTHER ->
                     {[value_books |-> vb] : vb \in {<< >>, <<"draftkings">>}}
    IN  {[signal_type |-> signal_type, event_id |-> "e1", sport_key |-> "basketball_nba",
          market_key |-> market_key, outcome_name |-> side, strength |-> strength,
          details |-> details] :
            side \in Sides, strength \in {60, 80}, details \in Details}

\* one call of _pick_best_signal on a group of DetectionPipeline.run: signals
\* of one type on one market of one event
PickBest ==
    /\ last_run = NoRun
    /\ \E signal_type \in {"reverse_line", "steam_move", "exchange_shift", "rapid_change",
                           "pinnacle_divergence"} :
       \E market_key \in {"h2h", "totals"} :
       \E n \in 1..MaxGroup :
       \E sigs \in [1..n -> PickSignals(signal_type, market_key)] :
          last_run' = [sigs |-> sigs, kept |-> pick_best_signal(sigs)]
    /\ UNCHANGED <<now, odds_snapshots, sent_alerts, insert_ret, send_log, poller_vars>>

NextPick == PickBest

SpecPick == Init /\ [][NextPick]_vars

\* the preference of the signal's type among the signals of its group
Preferred(s, sigs) ==
    CASE s.signal_type = "reverse_line" -> s.details.pinnacle_delta > 0
      [] s.signal_type = "steam_move" /\ s.market_key /= "totals" ->
             s.details.direction = "down"
      [] s.signal_type = "steam_move" /\ s.market_key = "totals" ->
             \/ s.outcome_name = "Over" /\ s.details.direction = "up"
             \/ s.outcome_name = "Under" /\ s.details.direction = "down"
      [] s.signal_type = "exchange_shift" -> s.details.direction = "shortened"
      [] s.signal_type = "rapid_change" ->
             \A i \in 1..Len(sigs) : Abs(sigs[i].details.delta) <= Abs(s.details.delta)
      [] OTHER -> TRUE

\* C27: when mirror-side collapse reduces a group of two or more signals and
\* some member satisfies the preference of its type (Reverse Line:
\* pinnacle_delta > 0; Steam Move on h2h or spreads: direction down; on
\* totals: Over with up or Under with down; Exchange Shift: shortened; Rapid
\* Change: largest absolute delta), the signal kept is a member of the group
\* that satisfies the preference.
C27_KeptSignalSatisfiesPreference ==
    (last_run /= NoRun /\ Len(last_run.sigs) >= 2) =>
        /\ last_run.kept \in Range(last_run.sigs)
        /\ (\E i \in 1..Len(last_run.sigs) : Preferred(last_run.sigs[i], last_run.sigs))
              => Preferred(last_run.kept, last_run.sigs)

\* a steam move on a total came first on the Under with direction up, stronger
\* and with more value books; the Over with direction up is kept
C27_Witness ==
    /\ last_run /= NoRun
    /\ Len(last_run.sigs) = 2
    /\ last_run.sigs[1].signal_type = "steam_move"
    /\ last_run.sigs[1].market_key = "totals"
    /\ last_run.sigs[1].outcome_name = "Under"
    /\ last_run.sigs[1].details.direction = "up"
    /\ last_run.sigs[1].strength > last_run.sigs[2].strength
    /\ Len(last_run.sigs[1].details.value_books) > Len(last_run.sigs[2].details.value_books)
    /\ last_run.kept = last_run.sigs[2]
    /\ last_run.kept.outcome_name = "Over"


\* --------------------------------------------------- rounding and the filter
\* the moneylines of the Lakers the sharp book and a US book may quote
PinnaclePrices == -200..-191
DraftKingsPrices == -165..-156

\* a poll interval passes and fetch_odds stores the two quotes
RoundingFetch ==
    /\ odds_snapshots = << >>
    /\ \E pin \in PinnaclePrices, us \in DraftKingsPrices :
          LET at == now + poll_interval_minutes
              rows == <<Snapshot("e1", "basketball_nba", PINNACLE_KEY, "h2h", "Lakers",
                                 pin, None, at),
                        Snapshot("e1", "basketball_nba", "draftkings", "h2h", "Lakers",
                                 us, None, at)>>
              ret == insert_snapshots(odds_snapshots, rows)
          IN  /\ now' = at
              /\ odds_snapshots' = ret.table
              /\ insert_ret' = [offered |-> Len(rows), inserted |-> ret.inserted]
    /\ UNCHANGED <<sent_alerts, last_run, send_log, poller_vars>>

NextRounding == RoundingFetch \/ Detect

SpecRounding == Init /\ [][NextRounding]_vars

\* min(1.0, delta / (threshold * 3)) >= min_signal_strength on the values the
\* Pinnacle Divergence detector computed for a moneyline, before rounding
UnroundedStrengthPasses(s) ==
    LET delta == RatAbsDiff(american_to_implied_prob(s.details.us_value),
                            american_to_implied_prob(s.details.pinnacle_value))
    IN  100 * delta.n * pinnacle_ml_prob_threshold.d
            >= min_signal_strength * delta.d * 3 * pinnacle_ml_prob_threshold.n

\* C28: rounding the strength for reporting never changes which signals the
\* pipeline returns: the strength filter keeps a signal exactly when the
\* unrounded strength the detector computed is at least min_signal_strength.
C28_FilterAgreesWithUnroundedStrength ==
    last_run /= NoRun =>
        \A i \in 1..Len(last_run.all_signals) :
            LET s == last_run.all_signals[i]
            IN  (s.signal_type = "pinnacle_divergence" /\ s.market_key = "h2h") =>
                    ((\E j \in 1..Len(last_run.strong_signals) : last_run.strong_signals[j] = s)
                        <=> UnroundedStrengthPasses(s))


\* ------------------------------------------------------------ backtest replay
\* the rows of the store fetched at or before T
RowsAtOrBefore(table, T) == SelectSeq(table, LAMBDA r : r.fetched_at <= T)

\* Backtester.run replays one of the stored fetch times through the pipeline's
\* detectors; recorded next to it, the same call on a store that holds the
\* same rows up to that time and none after it
Replay ==
    /\ odds_snapshots /= << >>
    /\ \E T \in FetchTimes(odds_snapshots) :
       \E out \in {[table \in {odds_snapshots, RowsAtOrBefore(odds_snapshots, T)} |->
                       all_signals_of(table, T, {})]} :
          last_run' = [replayed |-> T, on_store |-> out[odds_snapshots],
                       on_prefix |-> out[RowsAtOrBefore(odds_snapshots, T)]]
    /\ UNCHANGED <<now, odds_snapshots, sent_alerts, insert_ret, send_log, poller_vars>>

\* the poll cycles fetch and run the pipeline live; the backtest replays later
NextBacktest == NbaFetch \/ Detect \/ Replay

SpecBacktest == Init /\ [][NextBacktest]_vars

\* C29: the detector output of DetectionPipeline.run(T) depends only on the
\* rows fetched at or before T: on two stores that agree on all rows up to T,
\* one of which holds later rows, the detectors give the same signals.
C29_ReplayIgnoresLaterRows ==
    (last_run /= NoRun /\ "replayed" \in DOMAIN last_run) =>
        last_run.on_store = last_run.on_prefix


\* ------------------------------------------------------- the exhausted budget
\* the process starts on a store whose api_usage is empty or holds the row of
\* an earlier run's request, under a plan of 500 or 530 credits (20% of which
\* is 100 or 106 credits)
InitExhausted ==
    /\ now = StartTime
    /\ odds_snapshots = << >>
    /\ sent_alerts = << >>
    /\ insert_ret = [offered |-> 0, inserted |-> 0]
    /\ last_run = NoRun
    /\ send_log = NoSend
    /\ api_usage \in {<< >>,
                      track_credits(<< >>, StartTime - poll_interval_minutes,
                                    <<"/sports/", "basketball_nba", "/odds">>,
                                    CreditHeaders(<< >>))}
    /\ signal_results = << >>
    /\ low_budget_warned = FALSE
    /\ poller = IdlePoller(0, StartTime)
    /\ settings \in {ConfiguredSettings,
                     [ConfiguredSettings EXCEPT
                         !.odds_api_monthly_credits = odds_api_monthly_credits + 30]}
    /\ budget_warnings = << >>

\* the poller alone: no api_usage row is written from outside the poll cycle
SpecExhausted == InitExhausted /\ [][Next]_vars

\* C30: once should_poll has returned false (the flag it sets on its first
\* denial is up), every later poll tick is denied too: no step starts a fetch
\* or writes an api_usage row, so polling does not resume on its own.
C30_DeniedPollingNeverResumes ==
    [][low_budget_warned =>
          /\ api_usage' = api_usage
          /\ poller'.pc = "idle"
          /\ low_budget_warned'
          /\ ~should_poll(api_usage', low_budget_warned').ok]_vars

\* two ticks were denied one after the other: the second fired with the flag
\* up, one warning went out, and the ledger still holds the one row the
\* process started with
C30_Witness ==
    /\ low_budget_warned
    /\ poller.cycle_count = 2
    /\ poller.pc = "idle"
    /\ Len(api_usage) = 1
    /\ Len(budget_warnings) = 1
    /\ odds_snapshots = << >>

====
